---- MODULE Spec2Model ----
(***************************************************************************)
(* Light Game: the solver store (store/solver.ts) and the pure GF(2)       *)
(* solver it wraps, computeMatrixInfo and computeSolution, over the graph   *)
(* store's nodes and edges.                                                 *)
(*                                                                          *)
(* Indices are 1-based here (row/column c of the source is c+1), so the    *)
(* augmented column N of the source is column N+1.                          *)
(***************************************************************************)
EXTENDS Integers, Sequences, FiniteSets, TLC

\* Largest number of nodes of a graph the model starts from.
MaxNodes == 4
\* Largest number of edges of a graph the model starts from.
MaxEdges == 3

VARIABLES
    nodes,       \* graph.nodes: sequence of [id, on]
    edges,       \* graph.edges: sequence of [source, target]
    algorithm,   \* solver.algorithm
    matrixInfo,  \* solver.matrixInfo: [n, k]
    solution,    \* solver.solution: [hasSolution, nodesToPress, message]
    locals,      \* the locals of the computeSolution call that produced solution
    timers,      \* the number of pending timers of the timer-based Solver.setSolution
    currentMode,         \* canvas.currentMode
    selectedElementIds,  \* canvas.selectedElementIds
    undoStack,           \* history.undoStack: sequence of commands
    redoStack,           \* history.redoStack: sequence of commands
    machine,             \* the state value of the canvas machine
    context,             \* the context of the canvas machine
    nextId               \* the number of ids handed out by createNode and createEdge

\* The graph store and the solver store, with the pending timers of the timer-based
\* solver
solverVars == <<nodes, edges, algorithm, matrixInfo, solution, locals, timers>>

\* The canvas store, the history store, the canvas machine and the id source
editVars == <<currentMode, selectedElementIds, undoStack, redoStack, machine, context, nextId>>

vars == <<solverVars, editVars>>

\* ModeType
EDIT == "edit"
SOLVER == "solver"

\* AlgorithmType
ANY == "any"
MIN_WEIGHT == "min_weight"
AlgorithmType == {ANY, MIN_WEIGHT}

\* The messages of computeSolution
MsgNoNodes == "No nodes to solve."
MsgFailed == "Failed: No solution exists."
MsgUnique == "Success: Unique solution found."
MsgArbitrary == "Success: Arbitrary solution found."
MsgMinMove == "Success: Min-Move solution found."

----------------------------------------------------------------------------
(* Integer and vector helpers *)

\* a ^ b on bits
Xor(a, b) == (a + b) % 2

\* 1 << k in 32-bit signed arithmetic (the shift count is taken mod 32)
Shl1(k) ==
    LET s == k % 32
    IN  IF s = 31 THEN (0 - 2 ^ 30) - 2 ^ 30 ELSE 2 ^ s

\* (i >> j) & 1 for a non-negative 32-bit i (the shift count is taken mod 32, and a
\* shift by 31 leaves 0)
BitAt(i, j) ==
    LET s == j % 32
    IN  IF s = 31 THEN 0 ELSE (i \div (2 ^ s)) % 2

\* Array(n).fill(0)
Zeros(n) == [i \in 1..n |-> 0]

RECURSIVE SumFrom(_, _)
SumFrom(x, i) == IF i > Len(x) THEN 0 ELSE x[i] + SumFrom(x, i + 1)

\* x.reduce((a, b) => a + b, 0)
Weight(x) == SumFrom(x, 1)

\* nodeIndexMap that takes the id itself for the index
nodeIndexMap_idIsIndex(ids, id) == IF id \in 1..Len(ids) THEN id ELSE 0

\* new Map(ids.map((id, i) => [id, i])).get(id): the last index holding id, 0 for undefined
nodeIndexMap(ids, id) ==
    IF \E i \in 1..Len(ids) : ids[i] = id
    THEN CHOOSE i \in 1..Len(ids) :
             ids[i] = id /\ \A j \in (i + 1)..Len(ids) : ids[j] # id
    ELSE 0

\* nodes.map((n) => n.id)
NodeIds(ns) == [i \in 1..Len(ns) |-> ns[i].id]

RECURSIVE IdsOfFrom(_, _, _)
IdsOfFrom(x, ids, i) ==
    IF i > Len(x) THEN <<>>
    ELSE (IF x[i] = 1 THEN <<ids[i]>> ELSE <<>>) \o IdsOfFrom(x, ids, i + 1)

\* x.map((val, i) => (val === 1 ? nodeIds[i] : null)).filter(Boolean)
IdsToPress(x, ids) == IdsOfFrom(x, ids, 1)

----------------------------------------------------------------------------
(* Building the matrices *)

RECURSIVE ApplyEdges_clamped(_, _, _, _)
\* ApplyEdges that takes the first node for an endpoint it does not know
ApplyEdges_clamped(M, ids, es, e) ==
    IF e > Len(es) THEN M
    ELSE LET u0 == nodeIndexMap(ids, es[e].source)
             v0 == nodeIndexMap(ids, es[e].target)
             u == IF u0 = 0 THEN 1 ELSE u0
             v == IF v0 = 0 THEN 1 ELSE v0
             Muv == [M EXCEPT ![u][v] = 1]
         IN  ApplyEdges_clamped([Muv EXCEPT ![v][u] = 1], ids, es, e + 1)

RECURSIVE ApplyEdges_oneWay(_, _, _, _)
\* ApplyEdges that sets M[u][v] only
ApplyEdges_oneWay(M, ids, es, e) ==
    IF e > Len(es) THEN M
    ELSE LET u == nodeIndexMap(ids, es[e].source)
             v == nodeIndexMap(ids, es[e].target)
             M1 == IF u # 0 /\ v # 0 THEN [M EXCEPT ![u][v] = 1] ELSE M
         IN  ApplyEdges_oneWay(M1, ids, es, e + 1)

RECURSIVE ApplyEdges(_, _, _, _)
\* edges.forEach: M[u][v] = 1; M[v][u] = 1 when both endpoints are known
ApplyEdges(M, ids, es, e) ==
    IF e > Len(es) THEN M
    ELSE LET u == nodeIndexMap(ids, es[e].source)
             v == nodeIndexMap(ids, es[e].target)
             M1 == IF u # 0 /\ v # 0
                   THEN LET Muv == [M EXCEPT ![u][v] = 1]
                        IN  [Muv EXCEPT ![v][u] = 1]
                   ELSE M
         IN  ApplyEdges(M1, ids, es, e + 1)

\* computeMatrixInfo: A = I + Adj
BuildA(ns, es) ==
    LET N == Len(ns)
        I == [i \in 1..N |-> [j \in 1..N |-> IF i = j THEN 1 ELSE 0]]
    IN  ApplyEdges(I, NodeIds(ns), es, 1)

\* TargetBit with the two target values exchanged
TargetBit_exchanged(n) == IF n.on THEN 1 ELSE 0

\* computeSolution: the target column, M[i][N] = nodes[i].on ? 0 : 1
TargetBit(n) == IF n.on THEN 0 ELSE 1

\* computeSolution: M = [A|b]
BuildM(ns, es) ==
    LET N == Len(ns)
        M0 == [i \in 1..N |->
                 [j \in 1..(N + 1) |->
                    IF j = N + 1 THEN TargetBit(ns[i])
                    ELSE IF i = j THEN 1 ELSE 0]]
    IN  ApplyEdges(M0, NodeIds(ns), es, 1)

----------------------------------------------------------------------------
(* Elimination.  An elimination step ends in \o <<>>, which changes no value and
   makes TLC hold the rows as sequences instead of unevaluated functions. *)

\* while (pivotRow < N && M[pivotRow][j] === 0) pivotRow++; N+1 when none
FindPivotRow(M, N, rank, j) ==
    LET cand == {r \in (rank + 1)..N : M[r][j] = 1}
    IN  IF cand = {} THEN N + 1
        ELSE CHOOSE r \in cand : \A q \in cand : r <= q

\* SwapRows that copies the pivot row up without moving the displaced row down
SwapRows_overwrite(M, a, b) == [M EXCEPT ![a] = M[b]]

\* [M[a], M[b]] = [M[b], M[a]]
SwapRows(M, a, b) == [M EXCEPT ![a] = M[b], ![b] = M[a]]

\* computeMatrixInfo: XOR the pivot row p into the rows below it, columns j..N
EliminateBelow(M, N, p, j) ==
    [i \in 1..N |->
        IF i > p /\ M[i][j] = 1
        THEN [k \in 1..N |-> IF k >= j THEN Xor(M[i][k], M[p][k]) ELSE M[i][k]] \o <<>>
        ELSE M[i]] \o <<>>

RECURSIVE RankFrom_shortLoop(_, _, _, _)
\* RankFrom that never visits the last column
RankFrom_shortLoop(A, N, j, rank) ==
    IF ~(j < N /\ rank < N) THEN rank
    ELSE LET pivotRow == FindPivotRow(A, N, rank, j)
         IN  IF pivotRow <= N
             THEN RankFrom_shortLoop(
                      EliminateBelow(SwapRows(A, rank + 1, pivotRow), N, rank + 1, j),
                      N, j + 1, rank + 1)
             ELSE RankFrom_shortLoop(A, N, j + 1, rank)

RECURSIVE RankFrom(_, _, _, _)
\* computeMatrixInfo: for (j = 0; j < N && rank < N; j++)
RankFrom(A, N, j, rank) ==
    IF ~(j <= N /\ rank < N) THEN rank
    ELSE LET pivotRow == FindPivotRow(A, N, rank, j)
         IN  IF pivotRow <= N
             THEN RankFrom(EliminateBelow(SwapRows(A, rank + 1, pivotRow), N, rank + 1, j),
                           N, j + 1, rank + 1)
             ELSE RankFrom(A, N, j + 1, rank)

computeMatrixInfo(ns, es) ==
    LET N == Len(ns)
    IN  IF N = 0 THEN [n |-> 0, k |-> 0]
        ELSE [n |-> N, k |-> N - RankFrom(BuildA(ns, es), N, 1, 0)]

\* EliminateOthers that reduces only the rows below the pivot row
EliminateOthers_belowOnly(M, N, p, j) ==
    [i \in 1..N |->
        IF i > p /\ M[i][j] = 1
        THEN [k \in 1..(N + 1) |-> IF k >= j THEN Xor(M[i][k], M[p][k]) ELSE M[i][k]]
        ELSE M[i]]

\* computeSolution: XOR the pivot row p into every other row, columns j..N (augmented)
EliminateOthers(M, N, p, j) ==
    [i \in 1..N |->
        IF i # p /\ M[i][j] = 1
        THEN [k \in 1..(N + 1) |-> IF k >= j THEN Xor(M[i][k], M[p][k]) ELSE M[i][k]] \o <<>>
        ELSE M[i]] \o <<>>

RECURSIVE GaussJordanFrom(_, _, _, _)
\* computeSolution: for (j = 0; j < N && rank < N; j++); rank = Len(pivotCols)
GaussJordanFrom(M, N, j, pivotCols) ==
    LET rank == Len(pivotCols)
    IN  IF ~(j <= N /\ rank < N) THEN [M |-> M, rank |-> rank, pivotCols |-> pivotCols]
        ELSE LET pivotRow == FindPivotRow(M, N, rank, j)
             IN  IF pivotRow <= N
                 THEN GaussJordanFrom(
                          EliminateOthers(SwapRows(M, rank + 1, pivotRow), N, rank + 1, j),
                          N, j + 1, Append(pivotCols, j))
                 ELSE GaussJordanFrom(M, N, j + 1, pivotCols)

\* Inconsistent that skips the first row after the pivot rows
Inconsistent_skipFirst(M, N, rank) == \E r \in (rank + 2)..N : M[r][N + 1] = 1

\* M.slice(rank).some((row) => row[N] === 1)
Inconsistent(M, N, rank) == \E r \in (rank + 1)..N : M[r][N + 1] = 1

----------------------------------------------------------------------------
(* Back-substitution, null space and the minimum-weight search *)

RECURSIVE FreeColsFrom(_, _, _)
FreeColsFrom(pivotCols, N, j) ==
    IF j > N THEN <<>>
    ELSE (IF \E i \in 1..Len(pivotCols) : pivotCols[i] = j THEN <<>> ELSE <<j>>)
         \o FreeColsFrom(pivotCols, N, j + 1)

\* Array.from({length: N}, (_, j) => pivotCols.includes(j) ? -1 : j).filter((j) => j !== -1)
FreeCols(pivotCols, N) == FreeColsFrom(pivotCols, N, 1)

RECURSIVE ParticularFrom(_, _, _, _, _)
\* for (i = 0; i < rank; i++) xp[pivotCols[i]] = M[i][N]
ParticularFrom(xp, M, N, pivotCols, i) ==
    IF i > Len(pivotCols) THEN xp
    ELSE ParticularFrom([xp EXCEPT ![pivotCols[i]] = M[i][N + 1]], M, N, pivotCols, i + 1)

Particular(M, N, pivotCols) == ParticularFrom(Zeros(N), M, N, pivotCols, 1)

RECURSIVE BasisVectorFrom(_, _, _, _, _)
\* for (i = 0; i < rank; i++) if (M[i][freeCol] === 1) basisVector[pivotCols[i]] = 1
BasisVectorFrom(v, M, pivotCols, freeCol, i) ==
    IF i > Len(pivotCols) THEN v
    ELSE BasisVectorFrom(IF M[i][freeCol] = 1 THEN [v EXCEPT ![pivotCols[i]] = 1] ELSE v,
                         M, pivotCols, freeCol, i + 1)

\* NullSpaceBasis that leaves the free column's own entry at 0
NullSpaceBasis_noFreeEntry(M, N, pivotCols, freeCols) ==
    [f \in 1..Len(freeCols) |->
        BasisVectorFrom(Zeros(N), M, pivotCols, freeCols[f], 1)]

\* freeCols.map((freeCol) => ...)
NullSpaceBasis(M, N, pivotCols, freeCols) ==
    [f \in 1..Len(freeCols) |->
        BasisVectorFrom([Zeros(N) EXCEPT ![freeCols[f]] = 1], M, pivotCols, freeCols[f], 1)]

\* for (l = 0; l < N; l++) currentSolution[l] ^= v[l]
XorVec(x, v) == [l \in 1..Len(x) |-> Xor(x[l], v[l])]

RECURSIVE CandidateFrom(_, _, _, _)
\* for (j = 0; j < freeCols.length; j++) if ((i >> j) & 1) currentSolution ^= nullSpaceBasis[j]
CandidateFrom(cur, basis, i, j) ==
    IF j > Len(basis) THEN cur
    ELSE CandidateFrom(IF BitAt(i, j - 1) = 1 THEN XorVec(cur, basis[j]) ELSE cur,
                       basis, i, j + 1)

Candidate(xp, basis, i) == CandidateFrom(xp, basis, i, 1)

\* Better that also takes a candidate of equal weight
Better_orEqual(currentWeight, minWeight) == currentWeight <= minWeight

\* Better with the comparison reversed
Better_reversed(currentWeight, minWeight) == currentWeight > minWeight

\* if (currentWeight < minWeight) { minWeight = currentWeight; bestSolution = currentSolution }
Better(currentWeight, minWeight) == currentWeight < minWeight

RECURSIVE MinWeightFrom(_, _, _, _, _)
\* for (i = 1; i < 1 << freeCols.length; i++)
MinWeightFrom(xp, basis, i, bestSolution, minWeight) ==
    IF ~(i < Shl1(Len(basis))) THEN bestSolution
    ELSE LET currentSolution == Candidate(xp, basis, i)
             currentWeight == Weight(currentSolution)
         IN  IF Better(currentWeight, minWeight)
             THEN MinWeightFrom(xp, basis, i + 1, currentSolution, currentWeight)
             ELSE MinWeightFrom(xp, basis, i + 1, bestSolution, minWeight)

\* MinWeightSearch that starts from the first candidate and never weighs xp itself
MinWeightSearch_skipParticular(xp, basis) ==
    MinWeightFrom(xp, basis, 2, Candidate(xp, basis, 1), Weight(Candidate(xp, basis, 1)))

\* let bestSolution = [...xp]; let minWeight = ...; for (...) ...
MinWeightSearch(xp, basis) == MinWeightFrom(xp, basis, 1, xp, Weight(xp))

----------------------------------------------------------------------------
(* computeSolution *)

Report(has, press, msg) == [hasSolution |-> has, nodesToPress |-> press, message |-> msg]

\* The locals of a call that has not happened
NoLocals ==
    [exit |-> "none", algorithm |-> "", N |-> 0, M |-> <<>>, rank |-> 0,
     pivotCols |-> <<>>, freeCols |-> <<>>, xp |-> <<>>, nullSpaceBasis |-> <<>>,
     bestSolution |-> <<>>, result |-> Report("null", <<>>, "")]

\* IsUnique that also takes a single free column for none
IsUnique_offByOne(freeCols) == Len(freeCols) <= 1

\* if (freeCols.length === 0)
IsUnique(freeCols) == Len(freeCols) = 0

\* EmptyResult with the message of an unsolvable system
EmptyResult_failedMessage == Report("false", <<>>, MsgFailed)

\* EmptyResult reporting a solution
EmptyResult_solvable == Report("true", <<>>, MsgNoNodes)

\* if (N === 0) return {hasSolution: false, nodesToPress: [], message: "No nodes to solve."}
EmptyResult == Report("false", <<>>, MsgNoNodes)

\* computeSolution with its locals at the return it takes; exit names that return
computeSolutionRun(ns, es, alg) ==
    LET N == Len(ns)
        ids == NodeIds(ns)
        gj == GaussJordanFrom(BuildM(ns, es), N, 1, <<>>)
        base == [NoLocals EXCEPT !.algorithm = alg, !.N = N]
        reduced == [base EXCEPT !.M = gj.M, !.rank = gj.rank, !.pivotCols = gj.pivotCols]
        freeCols == FreeCols(gj.pivotCols, N)
        xp == Particular(gj.M, N, gj.pivotCols)
        solved == [reduced EXCEPT !.freeCols = freeCols, !.xp = xp]
        basis == NullSpaceBasis(gj.M, N, gj.pivotCols, freeCols)
        best == MinWeightSearch(xp, basis)
    IN  IF N = 0
        THEN [base EXCEPT !.exit = "empty", !.result = EmptyResult]
        ELSE IF Inconsistent(gj.M, N, gj.rank)
        THEN [reduced EXCEPT !.exit = "failed", !.result = Report("false", <<>>, MsgFailed)]
        ELSE IF IsUnique(freeCols)
        THEN [solved EXCEPT !.exit = "unique",
                            !.result = Report("true", IdsToPress(xp, ids), MsgUnique)]
        ELSE IF alg = ANY
        THEN [solved EXCEPT !.exit = "any",
                            !.result = Report("true", IdsToPress(xp, ids), MsgArbitrary)]
        ELSE [solved EXCEPT !.exit = "min_weight", !.nullSpaceBasis = basis,
                            !.bestSolution = best,
                            !.result = Report("true", IdsToPress(best, ids), MsgMinMove)]

computeSolution(ns, es, alg) == computeSolutionRun(ns, es, alg).result

----------------------------------------------------------------------------
(* The graph store's press *)

\* toggleNodeAndNeighborsOnById that follows an edge from its source only
toggleNodeAndNeighborsOnById_fromSource(ns, es, nodeId) ==
    LET toggled == {nodeId}
                   \cup {es[e].target : e \in {d \in 1..Len(es) : es[d].source = nodeId}}
    IN  [i \in 1..Len(ns) |->
            IF ns[i].id \in toggled THEN [ns[i] EXCEPT !.on = ~ns[i].on] ELSE ns[i]]

\* graph.toggleNodeAndNeighborsOnById(nodeId)
toggleNodeAndNeighborsOnById(ns, es, nodeId) ==
    LET toggled == {nodeId}
                   \cup {es[e].target : e \in {d \in 1..Len(es) : es[d].source = nodeId}}
                   \cup {es[e].source : e \in {d \in 1..Len(es) : es[d].target = nodeId}}
    IN  [i \in 1..Len(ns) |->
            IF ns[i].id \in toggled THEN [ns[i] EXCEPT !.on = ~ns[i].on] ELSE ns[i]]

----------------------------------------------------------------------------
(* The graphs the model starts from *)

\* Node ids are opaque and only compared for equality, so a node list is taken up to
\* renaming: the node at index i has id n + 1 - i (an id is not its index)
IdAt(n, i) == n + 1 - i

\* Node lists of n nodes, any initial values, each node showing its initial value
NodeLists(n) ==
    {[i \in 1..n |-> [id |-> IdAt(n, i), on |-> ons[i], initialOn |-> ons[i]]] :
        ons \in [1..n -> BOOLEAN]}

RECURSIVE PairsFrom(_, _, _)
\* The pairs a < b of 1..n in lexicographic order
PairsFrom(n, a, b) ==
    IF a >= n THEN <<>>
    ELSE IF b > n THEN PairsFrom(n, a + 1, a + 2)
    ELSE <<[source |-> a, target |-> b]>> \o PairsFrom(n, a, b + 1)

RECURSIVE PickFrom(_, _, _)
PickFrom(seq, S, i) ==
    IF i > Len(seq) THEN <<>>
    ELSE (IF i \in S THEN <<seq[i]>> ELSE <<>>) \o PickFrom(seq, S, i + 1)

\* Edge lists over the ids 1..n: no self-loop, no pair twice, at most MaxEdges edges
EdgeLists(n) ==
    LET all == PairsFrom(n, 1, 2)
    IN  {PickFrom(all, S, 1) : S \in {T \in SUBSET (1..Len(all)) : Cardinality(T) <= MaxEdges}}

----------------------------------------------------------------------------
(* The solver store *)

\* The machine context set by clearContext
DefaultContext == [type |-> "DEFAULT"]

\* Nothing selected, no history, the canvas machine idle, in the given mode
NoEditing(mode) ==
    /\ currentMode = mode
    /\ selectedElementIds = {}
    /\ undoStack = <<>>
    /\ redoStack = <<>>
    /\ machine = "Idle"
    /\ context = DefaultContext
    /\ nextId = 0

Init ==
    /\ \E n \in 0..MaxNodes :
          /\ nodes \in NodeLists(n)
          /\ edges \in EdgeLists(n)
    /\ algorithm = MIN_WEIGHT
    /\ matrixInfo = [n |-> 0, k |-> 0]
    /\ solution = Report("null", <<>>, "")
    /\ locals = NoLocals
    /\ timers = 0
    /\ NoEditing(SOLVER)

\* solver.setMatrixInfo()
setMatrixInfo ==
    /\ matrixInfo' = computeMatrixInfo(nodes, edges)
    /\ UNCHANGED <<nodes, edges, algorithm, solution, locals, timers>>
    /\ UNCHANGED editVars

\* setSolution that also applies the presses it reports, lighting every node
setSolution_lightsNodes ==
    /\ locals' = computeSolutionRun(nodes, edges, algorithm)
    /\ timers' = timers
    /\ solution' = locals'.result
    /\ nodes' = IF solution'.hasSolution = "true"
                THEN [i \in 1..Len(nodes) |-> [nodes[i] EXCEPT !.on = TRUE]]
                ELSE nodes
    /\ UNCHANGED <<edges, algorithm, matrixInfo>>
    /\ UNCHANGED editVars

\* solver.setSolution()
setSolution ==
    /\ locals' = computeSolutionRun(nodes, edges, algorithm)
    /\ timers' = timers
    /\ solution' = locals'.result
    /\ UNCHANGED <<nodes, edges, algorithm, matrixInfo>>
    /\ UNCHANGED editVars

\* commands.solveCurrentPuzzleBy(a): solver.setAlgorithm(a); solver.setSolution()
solveCurrentPuzzleBy(a) ==
    /\ algorithm' = a
    /\ locals' = computeSolutionRun(nodes, edges, a)
    /\ timers' = timers
    /\ solution' = locals'.result
    /\ UNCHANGED <<nodes, edges, matrixInfo>>
    /\ UNCHANGED editVars

Next ==
    \/ setMatrixInfo
    \/ setSolution
    \/ \E a \in AlgorithmType : solveCurrentPuzzleBy(a)

Spec == Init /\ [][Next]_vars

----------------------------------------------------------------------------
(* Restart, and the solver applied to arbitrary lists *)

\* graph.resetNodesOnToInitialOn()
resetNodesOnToInitialOn(ns) == [i \in 1..Len(ns) |-> [ns[i] EXCEPT !.on = ns[i].initialOn]]

\* solveRestarted without solver.setMatrixInfo()
solveRestarted_staleInfo(ns) ==
    /\ nodes' = ns
    /\ matrixInfo' = matrixInfo
    /\ locals' = computeSolutionRun(ns, edges, algorithm)
    /\ timers' = timers
    /\ solution' = locals'.result

\* The solver store's part of commands.restartPuzzle(), after the reset to ns
solveRestarted(ns) ==
    /\ nodes' = ns
    /\ matrixInfo' = computeMatrixInfo(ns, edges)
    /\ locals' = computeSolutionRun(ns, edges, algorithm)
    /\ timers' = timers
    /\ solution' = locals'.result

\* commands.restartPuzzle(): resetNodesOnToInitialOn(); setMatrixInfo(); setSolution()
restartPuzzle ==
    /\ solveRestarted(resetNodesOnToInitialOn(nodes))
    /\ UNCHANGED <<edges, algorithm>>
    /\ UNCHANGED editVars

\* Largest number of nodes, and of edges, of the arbitrary lists
MaxListNodes == 2
MaxListEdges == 2

\* Edge lists as the pure functions accept them: any order, a pair listed twice or in
\* both directions, self-loops, and the endpoint n + 1 that is no id of the node list
AnyEdgeLists(n) ==
    UNION {[1..m -> [source : 1..(n + 1), target : 1..(n + 1)]] : m \in 0..MaxListEdges}

InitLists ==
    /\ \E n \in 0..MaxListNodes :
          /\ nodes \in NodeLists(n)
          /\ edges \in AnyEdgeLists(n)
    /\ algorithm \in AlgorithmType
    /\ matrixInfo = [n |-> 0, k |-> 0]
    /\ solution = Report("null", <<>>, "")
    /\ locals = NoLocals
    /\ timers = 0
    /\ NoEditing(SOLVER)

NextLists == restartPuzzle

SpecLists == InitLists /\ [][NextLists]_vars

\* Largest number of nodes of the node lists taken in every order
MaxPermNodes == 3

\* The bijections of 1..n
Perms(n) == {p \in [1..n -> 1..n] : \A i, j \in 1..n : i # j => p[i] # p[j]}

InitPerm ==
    /\ \E n \in 0..MaxPermNodes :
          /\ \E base \in NodeLists(n), p \in Perms(n) : nodes = [i \in 1..n |-> base[p[i]]]
          /\ edges \in EdgeLists(n)
    /\ algorithm \in AlgorithmType
    /\ matrixInfo = [n |-> 0, k |-> 0]
    /\ solution = Report("null", <<>>, "")
    /\ locals = NoLocals
    /\ timers = 0
    /\ NoEditing(SOLVER)

NextPerm == restartPuzzle

SpecPerm == InitPerm /\ [][NextPerm]_vars

\* Largest number of joined pairs beside the star in a graph of small nullity
MaxFewPairs == 1
\* How far past 31 the nullity of a graph of large nullity goes
MaxWrap == 2

\* A star (node 1 joined to nodes 2, 3 and 4, nullity 1) and p pairs of joined nodes
\* (nullity 1 each): the node at index i has id IdAt(4 + 2p, i), the star's nodes take
\* the values ons, every other node is off
StarAndPairsNodes(p, ons) ==
    [i \in 1..(4 + 2 * p) |->
        [id |-> IdAt(4 + 2 * p, i),
         on |-> IF i <= 4 THEN ons[i] ELSE FALSE,
         initialOn |-> IF i <= 4 THEN ons[i] ELSE FALSE]]

StarAndPairsEdges(p) ==
    LET N == 4 + 2 * p
    IN  [e \in 1..(3 + p) |->
            IF e <= 3
            THEN [source |-> IdAt(N, 1), target |-> IdAt(N, e + 1)]
            ELSE [source |-> IdAt(N, 2 * e - 3), target |-> IdAt(N, 2 * e - 2)]]

\* The numbers of pairs: few, or so many that the nullity 1 + p is 31 .. 31 + MaxWrap
PairCounts == {p \in 0..(30 + MaxWrap) : p <= MaxFewPairs \/ p >= 30}

\* The solver store over a star and pairs, as drawn or imported
InitWide ==
    /\ \E p \in PairCounts, ons \in [1..4 -> BOOLEAN] :
          /\ nodes = StarAndPairsNodes(p, ons)
          /\ edges = StarAndPairsEdges(p)
    /\ algorithm = MIN_WEIGHT
    /\ matrixInfo = [n |-> 0, k |-> 0]
    /\ solution = Report("null", <<>>, "")
    /\ locals = NoLocals
    /\ timers = 0
    /\ NoEditing(SOLVER)

SpecWide == InitWide /\ [][Next]_vars

----------------------------------------------------------------------------
(* Playing a puzzle in SOLVER mode *)

\* Toolbar: isNotDragging, the condition under which mode, undo, redo, select-all and
\* delete are enabled
isNotDragging == machine \notin {"Panning", "DraggingFromNode", "BoxSelecting"}

\* Toolbar Mode > Solver: commands.switchToSolverMode()
switchToSolverMode ==
    /\ isNotDragging
    /\ currentMode # SOLVER
    /\ currentMode' = SOLVER
    /\ selectedElementIds' = {}
    /\ solveRestarted(resetNodesOnToInitialOn(nodes))
    /\ UNCHANGED <<edges, algorithm>>
    /\ UNCHANGED <<undoStack, redoStack, machine, context, nextId>>

\* Toolbar Mode > Edit: commands.switchToEditMode()
switchToEditMode ==
    /\ isNotDragging
    /\ currentMode # EDIT
    /\ currentMode' = EDIT
    /\ nodes' = resetNodesOnToInitialOn(nodes)
    /\ UNCHANGED <<edges, algorithm, matrixInfo, solution, locals, timers>>
    /\ UNCHANGED <<selectedElementIds, undoStack, redoStack, machine, context, nextId>>

\* Toolbar Restart: commands.restartPuzzle()
Restart ==
    /\ currentMode = SOLVER
    /\ restartPuzzle

\* Toolbar Algorithm > Arbitrary / Min-Move: commands.solveCurrentPuzzleBy(a)
Algorithm(a) ==
    /\ currentMode = SOLVER
    /\ algorithm # a
    /\ solveCurrentPuzzleBy(a)

\* removeNodeFromSolution that empties the press list
removeNodeFromSolution_clearsList(sol, nodeId) == [sol EXCEPT !.nodesToPress = <<>>]

\* removeNodeFromSolution that leaves the press list as it is
removeNodeFromSolution_keepsNode(sol, nodeId) == sol

\* solver.removeNodeFromSolution(nodeId), on the report sol
removeNodeFromSolution(sol, nodeId) ==
    [sol EXCEPT !.nodesToPress = SelectSeq(@, LAMBDA id : id # nodeId)]

\* current.solution.hasSolution && current.solution.nodesToPress.includes(clickedNodeId)
wasInSolution(clickedNodeId) ==
    /\ solution.hasSolution = "true"
    /\ \E p \in 1..Len(solution.nodesToPress) : solution.nodesToPress[p] = clickedNodeId

\* The action handleSolverModeLeftMouseDown of the canvas machine, the pointer on the
\* node clickedNodeId
handleSolverModeLeftMouseDown(clickedNodeId) ==
    /\ nodes' = toggleNodeAndNeighborsOnById(nodes, edges, clickedNodeId)
    /\ IF solution.hasSolution = "true"
       THEN IF wasInSolution(clickedNodeId)
            THEN /\ solution' = removeNodeFromSolution(solution, clickedNodeId)
                 /\ locals' = locals
            ELSE /\ locals' = computeSolutionRun(nodes', edges, algorithm)
                 /\ solution' = locals'.result
       ELSE UNCHANGED <<solution, locals>>
    /\ UNCHANGED <<edges, algorithm, matrixInfo, timers>>

\* Idle, LEFT_MOUSE_DOWN on a node with isSolverMode: the machine stays idle
LeftMouseDownInSolverMode(clickedNodeId) ==
    /\ machine = "Idle"
    /\ currentMode = SOLVER
    /\ clickedNodeId \in {nodes[i].id : i \in 1..Len(nodes)}
    /\ handleSolverModeLeftMouseDown(clickedNodeId)
    /\ UNCHANGED editVars

\* Largest number of nodes of a puzzle that is played
MaxPlayNodes == 3

\* A graph as graph.load leaves it after an import into the fresh application: EDIT
\* mode, every node showing its initial value, nothing solved yet
InitSolver ==
    /\ \E n \in 0..MaxPlayNodes :
          /\ nodes \in NodeLists(n)
          /\ edges \in EdgeLists(n)
    /\ algorithm = MIN_WEIGHT
    /\ matrixInfo = [n |-> 0, k |-> 0]
    /\ solution = Report("null", <<>>, "")
    /\ locals = NoLocals
    /\ timers = 0
    /\ NoEditing(EDIT)

NextSolver ==
    \/ switchToSolverMode
    \/ switchToEditMode
    \/ Restart
    \/ \E a \in AlgorithmType : Algorithm(a)
    \/ \E i \in 1..Len(nodes) : LeftMouseDownInSolverMode(nodes[i].id)

SpecSolver == InitSolver /\ [][NextSolver]_vars

----------------------------------------------------------------------------
(* Editing a graph: the graph store, the history store and the canvas machine *)

\* Grid cells the pointer can snap to
MaxCells == 2

\* Ids that createNode and createEdge can draw
MaxIds == 3

\* Commands on the undo stack beyond which the editing registers no more
MaxHistory == 2

\* history.ts: the undo stack keeps its last MAX_HISTORY_SIZE commands
MAX_HISTORY_SIZE == 200

Cells == 1..MaxCells

\* The graph store's nodes and edges as one value
Graph == [nodes |-> nodes, edges |-> edges]

\* createNode(gridX, gridY, type): on = initialOn = false; id stands for the drawn uuid
createNode(id, cell) == [id |-> id, cell |-> cell, on |-> FALSE, initialOn |-> FALSE]

\* createEdge(sourceId, targetId); id stands for the drawn uuid
createEdge(id, sourceId, targetId) == [id |-> id, source |-> sourceId, target |-> targetId]

\* graph.getNodeById(id) is defined
getNodeById(ns, id) == \E i \in 1..Len(ns) : ns[i].id = id

\* graph.hasNodeAtGridPos(gridPos)
hasNodeAtGridPos(ns, cell) == \E i \in 1..Len(ns) : ns[i].cell = cell

\* graph.getEdgeBySourceAndTargetIds(fromId, toId): the index of the first edge that
\* joins the two ids in either direction, 0 for undefined
getEdgeBySourceAndTargetIds(es, fromId, toId) ==
    LET found == {e \in 1..Len(es) :
                     \/ es[e].source = fromId /\ es[e].target = toId
                     \/ es[e].source = toId /\ es[e].target = fromId}
    IN  IF fromId # toId /\ found # {}
        THEN CHOOSE e \in found : \A d \in found : e <= d
        ELSE 0

\* graph.addNode(gridX, gridY, type): refused on an occupied grid position
addNode(ns, id, cell) ==
    IF hasNodeAtGridPos(ns, cell) THEN ns ELSE Append(ns, createNode(id, cell))

\* graph.addEdge(sourceId, targetId): refused for a self-loop and for a pair already
\* joined in either direction; the endpoints are not looked up
addEdge(ns, es, id, sourceId, targetId) ==
    IF \/ sourceId = targetId
       \/ \E e \in 1..Len(es) :
             \/ es[e].source = sourceId /\ es[e].target = targetId
             \/ es[e].source = targetId /\ es[e].target = sourceId
    THEN es
    ELSE Append(es, createEdge(id, sourceId, targetId))

\* GraphElement[]: the nodes and the edges of an element list, each in list order
Elements(ns, es) == [nodes |-> ns, edges |-> es]

\* elements.map((el) => el.element.id) as a set
ElementIds(els) ==
    {els.nodes[i].id : i \in 1..Len(els.nodes)} \cup {els.edges[e].id : e \in 1..Len(els.edges)}

\* graph.getElementsByIds(elementIds)
getElementsByIds(g, ids) ==
    Elements(SelectSeq(g.nodes, LAMBDA n : n.id \in ids),
             SelectSeq(g.edges, LAMBDA e : e.id \in ids))

\* graph.deleteElementsByIds(selectedIds): the nodes, the edges and the edges at the nodes
deleteElementsByIds(g, ids) ==
    [nodes |-> SelectSeq(g.nodes, LAMBDA n : n.id \notin ids),
     edges |-> SelectSeq(g.edges, LAMBDA e : /\ e.id \notin ids
                                             /\ e.source \notin ids
                                             /\ e.target \notin ids)]

\* graph.restoreElements(elements)
restoreElements(g, els) ==
    [nodes |-> g.nodes \o els.nodes, edges |-> g.edges \o els.edges]

\* nodeIds.forEach((id) => graph.toggleNodeInitialOnById(id))
toggleNodeInitialOnById(ns, nodeIds) ==
    [i \in 1..Len(ns) |->
        IF ns[i].id \in nodeIds THEN [ns[i] EXCEPT !.initialOn = ~ns[i].initialOn] ELSE ns[i]]

\* canvas.selectedElements.map((sel) => sel.element.id): the selected ids in the graph
selectedElements == ElementIds(getElementsByIds(Graph, selectedElementIds))

\* canvas.selectedNodeIds
selectedNodeIds == {nodes[i].id : i \in {j \in 1..Len(nodes) : nodes[j].id \in selectedElementIds}}

\* getElementAtPos(pos), the pointer on a grid cell: the index of the last node of the
\* list at that cell, 0 for none
getElementAtPos(ns, cell) ==
    LET at == {i \in 1..Len(ns) : ns[i].cell = cell}
    IN  IF at = {} THEN 0 ELSE CHOOSE i \in at : \A j \in at : j <= i

\* getElementAtPos(pos), the pointer on the segment of edge e away from every node: an
\* edge is hit only when both its endpoints are nodes of the graph
isOverEdge(ns, es, e) == getNodeById(ns, es[e].source) /\ getNodeById(ns, es[e].target)

\* getElementsInBox(rect), the rectangle over the whole drawing
getElementsInBox(g) ==
    Elements(g.nodes,
             SelectSeq(g.edges, LAMBDA e : getNodeById(g.nodes, e.source)
                                           /\ getNodeById(g.nodes, e.target)))

\* graph.setNodesInitialOnByIds(updates), updates a function from ids to values
setNodesInitialOnByIds(ns, updates) ==
    [i \in 1..Len(ns) |->
        IF ns[i].id \in DOMAIN updates
        THEN [ns[i] EXCEPT !.initialOn = updates[ns[i].id]]
        ELSE ns[i]]

\* The commands of the history store
AddElementsCommand(els) == [type |-> "AddElements", elements |-> els, nodeIds |-> {}]
DeleteElementsCommand(els) == [type |-> "DeleteElements", elements |-> els, nodeIds |-> {}]
InitInvertCommand(ids) == [type |-> "InitInvert", elements |-> Elements(<<>>, <<>>), nodeIds |-> ids]

\* new InitTurnOffCommand(nodeIds), constructed over the nodes ns: previousStates holds
\* the initialOn of the ids that are nodes
InitTurnOffCommand(ids, ns) ==
    [type |-> "InitTurnOff", elements |-> Elements(<<>>, <<>>), nodeIds |-> ids,
     previousStates |->
         [id \in {d \in ids : getNodeById(ns, d)} |->
             (CHOOSE n \in {ns[i] : i \in 1..Len(ns)} : n.id = id).initialOn]]

\* A command of the base class, whose undo and redo do nothing
Command == [type |-> "Command", elements |-> Elements(<<>>, <<>>), nodeIds |-> {}]

\* command.undo(): the graph and the selection it leaves
CommandUndo(cmd, g, sel) ==
    CASE cmd.type = "AddElements" ->
             [graph |-> deleteElementsByIds(g, ElementIds(cmd.elements)),
              selected |-> sel \ ElementIds(cmd.elements)]
      [] cmd.type = "DeleteElements" ->
             [graph |-> restoreElements(g, cmd.elements),
              selected |-> ElementIds(cmd.elements)]
      [] cmd.type = "InitInvert" ->
             [graph |-> [g EXCEPT !.nodes = toggleNodeInitialOnById(g.nodes, cmd.nodeIds)],
              selected |-> sel]
      [] cmd.type = "InitTurnOff" ->
             [graph |-> [g EXCEPT !.nodes = setNodesInitialOnByIds(g.nodes, cmd.previousStates)],
              selected |-> sel]
      [] cmd.type = "Command" -> [graph |-> g, selected |-> sel]

\* command.redo(): the graph and the selection it leaves
CommandRedo(cmd, g, sel) ==
    CASE cmd.type = "AddElements" ->
             [graph |-> restoreElements(g, cmd.elements),
              selected |-> ElementIds(cmd.elements)]
      [] cmd.type = "DeleteElements" ->
             [graph |-> deleteElementsByIds(g, ElementIds(cmd.elements)),
              selected |-> {}]
      [] cmd.type = "InitInvert" ->
             [graph |-> [g EXCEPT !.nodes = toggleNodeInitialOnById(g.nodes, cmd.nodeIds)],
              selected |-> sel]
      [] cmd.type = "InitTurnOff" ->
             [graph |-> [g EXCEPT !.nodes =
                            setNodesInitialOnByIds(g.nodes, [id \in cmd.nodeIds |-> FALSE])],
              selected |-> sel]
      [] cmd.type = "Command" -> [graph |-> g, selected |-> sel]

register_keepsAll(stack, cmd) == Append(stack, cmd)

\* history.register(command): the undo stack it leaves (the redo stack is emptied)
register(stack, cmd) ==
    LET appended == Append(stack, cmd)
        first == IF Len(appended) > MAX_HISTORY_SIZE THEN Len(appended) - MAX_HISTORY_SIZE ELSE 0
    IN  SubSeq(appended, first + 1, Len(appended))

\* history.popUndoWithoutRedo(): the undo stack it leaves
popUndoWithoutRedo(stack) ==
    IF Len(stack) = 0 THEN stack ELSE SubSeq(stack, 1, Len(stack) - 1)

\* The machine guards isEditMode and isSolverMode
isEditMode == currentMode = EDIT
isSolverMode == currentMode = SOLVER

\* Idle, LEFT_MOUSE_DOWN on a free cell with isOverGhostNode and isEditMode:
\* handleNewNodeCreationSelectionHistory
LeftMouseDownOnGhostNode(cell, isMulti) ==
    /\ machine = "Idle"
    /\ ~hasNodeAtGridPos(nodes, cell)
    /\ isEditMode
    /\ nextId < MaxIds
    /\ Len(undoStack) < MaxHistory
    /\ LET newNode == createNode(nextId + 1, cell)
       IN  /\ nodes' = addNode(nodes, nextId + 1, cell)
           /\ nextId' = nextId + 1
           /\ undoStack' = register(undoStack, AddElementsCommand(Elements(<<newNode>>, <<>>)))
           /\ redoStack' = <<>>
           /\ selectedElementIds' = IF isMulti THEN selectedElementIds \cup {newNode.id}
                                    ELSE {newNode.id}
           /\ context' = [type |-> "FROM_NODE", fromNode |-> newNode,
                          isFromNodeNewlyCreated |-> TRUE]
    /\ machine' = "PressedOnNode"
    /\ UNCHANGED <<edges, algorithm, matrixInfo, solution, locals, timers, currentMode>>

\* handleExistingElementSelection: the selection after a press on the element id
handleExistingElementSelection(id, isMulti) ==
    IF isMulti
    THEN IF id \in selectedElementIds
         THEN selectedElementIds \ {id}
         ELSE selectedElementIds \cup {id}
    ELSE {id}

\* Idle, LEFT_MOUSE_DOWN on the node of a cell with isOverExistingElement and isEditMode
LeftMouseDownOnNode(cell, isMulti) ==
    /\ machine = "Idle"
    /\ getElementAtPos(nodes, cell) # 0
    /\ isEditMode
    /\ LET clicked == nodes[getElementAtPos(nodes, cell)]
       IN  /\ selectedElementIds' = handleExistingElementSelection(clicked.id, isMulti)
           /\ context' = [type |-> "FROM_NODE", fromNode |-> clicked,
                          isFromNodeNewlyCreated |-> FALSE]
    /\ machine' = "PressedOnNode"
    /\ UNCHANGED solverVars
    /\ UNCHANGED <<currentMode, undoStack, redoStack, nextId>>

\* Idle, LEFT_MOUSE_DOWN on an edge with isOverExistingElement and isEditMode
LeftMouseDownOnEdge(e, isMulti) ==
    /\ machine = "Idle"
    /\ isOverEdge(nodes, edges, e)
    /\ isEditMode
    /\ selectedElementIds' = handleExistingElementSelection(edges[e].id, isMulti)
    /\ context' = DefaultContext
    /\ machine' = "PressedOnNode"
    /\ UNCHANGED solverVars
    /\ UNCHANGED <<currentMode, undoStack, redoStack, nextId>>

\* Idle, LEFT_MOUSE_DOWN on the empty area with isEditMode:
\* prepareBoxSelectionDragFromEmptyArea
LeftMouseDownOnEmptyArea(isMulti) ==
    /\ machine = "Idle"
    /\ isEditMode
    /\ selectedElementIds' = IF isMulti THEN selectedElementIds ELSE {}
    /\ context' = [type |-> "FROM_EMPTY_AREA"]
    /\ machine' = "BoxSelecting"
    /\ UNCHANGED solverVars
    /\ UNCHANGED <<currentMode, undoStack, redoStack, nextId>>

\* PressedOnNode, MOUSE_MOVE with hasDraggedBeyondThresholdFromContextNode
MouseMoveBeyondThreshold ==
    /\ machine = "PressedOnNode"
    /\ context.type = "FROM_NODE"
    /\ machine' = "DraggingFromNode"
    /\ UNCHANGED solverVars
    /\ UNCHANGED <<currentMode, selectedElementIds, undoStack, redoStack, context, nextId>>

\* PressedOnNode, LEFT_MOUSE_UP: back to Idle, whose entry clears the context
LeftMouseUpOnPressed ==
    /\ machine = "PressedOnNode"
    /\ machine' = "Idle"
    /\ context' = DefaultContext
    /\ UNCHANGED solverVars
    /\ UNCHANGED <<currentMode, selectedElementIds, undoStack, redoStack, nextId>>

\* DraggingFromNode, LEFT_MOUSE_UP: finalizeNodeEdgeCreationSelectionHistory, the pointer
\* released on the cell end, or on no cell when end = 0
finalizeNodeEdgeCreationSelectionHistory(end, isMulti) ==
    LET fromNode == context.fromNode
        fromNew == context.isFromNodeNewlyCreated
        elementAtEnd == IF end \in Cells THEN getElementAtPos(nodes, end) ELSE 0
        ghostAtEnd == end \in Cells /\ ~hasNodeAtGridPos(nodes, end)
        toNew == elementAtEnd = 0 /\ ghostAtEnd
        hasTo == elementAtEnd # 0 \/ ghostAtEnd
        toNode == IF elementAtEnd # 0 THEN nodes[elementAtEnd] ELSE createNode(nextId + 1, end)
        nodes1 == IF toNew THEN addNode(nodes, nextId + 1, end) ELSE nodes
        drawn1 == IF toNew THEN nextId + 1 ELSE nextId
        tries == hasTo /\ fromNode.id # toNode.id
        edgeNew == tries /\ getEdgeBySourceAndTargetIds(edges, fromNode.id, toNode.id) = 0
        newEdge == createEdge(drawn1 + 1, fromNode.id, toNode.id)
        edges1 == IF edgeNew
                  THEN addEdge(nodes1, edges, drawn1 + 1, fromNode.id, toNode.id)
                  ELSE edges
        drawn2 == IF edgeNew THEN drawn1 + 1 ELSE drawn1
        newElements == Elements((IF fromNew THEN <<fromNode>> ELSE <<>>)
                                    \o (IF toNew THEN <<toNode>> ELSE <<>>),
                                IF edgeNew THEN <<newEdge>> ELSE <<>>)
        popped == IF fromNew THEN popUndoWithoutRedo(undoStack) ELSE undoStack
        newIds == ElementIds(newElements)
    IN  /\ drawn2 <= MaxIds
        /\ Len(popped) < MaxHistory
        /\ nodes' = nodes1
        /\ edges' = edges1
        /\ nextId' = drawn2
        /\ undoStack' = register(popped, AddElementsCommand(newElements))
        /\ redoStack' = <<>>
        /\ selectedElementIds' = IF isMulti THEN selectedElementIds \cup newIds ELSE newIds

LeftMouseUpOnDragging(end, isMulti) ==
    /\ machine = "DraggingFromNode"
    /\ context.type = "FROM_NODE"
    /\ finalizeNodeEdgeCreationSelectionHistory(end, isMulti)
    /\ machine' = "Idle"
    /\ context' = DefaultContext
    /\ UNCHANGED <<algorithm, matrixInfo, solution, locals, timers, currentMode>>

\* BoxSelecting, LEFT_MOUSE_UP: finalizeBoxSelection, the rectangle over nothing or over
\* the whole drawing
LeftMouseUpOnBoxSelecting(overAll, isMulti) ==
    /\ machine = "BoxSelecting"
    /\ LET newIds == IF overAll THEN ElementIds(getElementsInBox(Graph)) ELSE {}
       IN  selectedElementIds' = IF isMulti THEN selectedElementIds \cup newIds
                                 ELSE IF newIds # {} THEN newIds
                                 ELSE selectedElementIds
    /\ machine' = "Idle"
    /\ context' = DefaultContext
    /\ UNCHANGED solverVars
    /\ UNCHANGED <<currentMode, undoStack, redoStack, nextId>>

\* ESC_DOWN: deselectAll when Idle with isEditMode, back to Idle from a press, a drag or
\* a box selection
EscDown ==
    /\ \/ /\ machine = "Idle"
          /\ isEditMode
          /\ selectedElementIds' = {}
       \/ /\ machine \in {"PressedOnNode", "DraggingFromNode", "BoxSelecting"}
          /\ selectedElementIds' = selectedElementIds
    /\ machine' = "Idle"
    /\ context' = DefaultContext
    /\ UNCHANGED solverVars
    /\ UNCHANGED <<currentMode, undoStack, redoStack, nextId>>

\* Idle, CONTEXT_MENU on the node of a cell with isEditMode:
\* invertInitialStateOnContextMenu
ContextMenuOnNode(cell) ==
    /\ machine = "Idle"
    /\ isEditMode
    /\ getElementAtPos(nodes, cell) # 0
    /\ Len(undoStack) < MaxHistory
    /\ LET cmd == InitInvertCommand({nodes[getElementAtPos(nodes, cell)].id})
       IN  /\ nodes' = CommandRedo(cmd, Graph, selectedElementIds).graph.nodes
           /\ undoStack' = register(undoStack, cmd)
           /\ redoStack' = <<>>
    /\ UNCHANGED <<edges, algorithm, matrixInfo, solution, locals, timers>>
    /\ UNCHANGED <<currentMode, selectedElementIds, machine, context, nextId>>

\* Idle, ALT_DOWN
AltDown ==
    /\ machine = "Idle"
    /\ machine' = "PreparePanning"
    /\ UNCHANGED solverVars
    /\ UNCHANGED <<currentMode, selectedElementIds, undoStack, redoStack, context, nextId>>

\* PreparePanning, ALT_UP
AltUp ==
    /\ machine = "PreparePanning"
    /\ machine' = "Idle"
    /\ context' = DefaultContext
    /\ UNCHANGED solverVars
    /\ UNCHANGED <<currentMode, selectedElementIds, undoStack, redoStack, nextId>>

\* PreparePanning, LEFT_MOUSE_DOWN: storePanStartInfo
LeftMouseDownOnPreparePanning ==
    /\ machine = "PreparePanning"
    /\ machine' = "Panning"
    /\ context' = [type |-> "PANNING"]
    /\ UNCHANGED solverVars
    /\ UNCHANGED <<currentMode, selectedElementIds, undoStack, redoStack, nextId>>

\* Panning, LEFT_MOUSE_UP: PreparePanning with isAltKeyPressed, Idle without
LeftMouseUpOnPanning(altKey) ==
    /\ machine = "Panning"
    /\ machine' = IF altKey THEN "PreparePanning" ELSE "Idle"
    /\ context' = IF altKey THEN context ELSE DefaultContext
    /\ UNCHANGED solverVars
    /\ UNCHANGED <<currentMode, selectedElementIds, undoStack, redoStack, nextId>>

\* Toolbar Undo and its shortcut: commands.undo()
Undo ==
    /\ isNotDragging
    /\ Len(undoStack) > 0
    /\ currentMode = EDIT
    /\ LET command == undoStack[Len(undoStack)]
           after == CommandUndo(command, Graph, selectedElementIds)
       IN  /\ nodes' = after.graph.nodes
           /\ edges' = after.graph.edges
           /\ selectedElementIds' = after.selected
           /\ undoStack' = SubSeq(undoStack, 1, Len(undoStack) - 1)
           /\ redoStack' = Append(redoStack, command)
    /\ UNCHANGED <<algorithm, matrixInfo, solution, locals, timers>>
    /\ UNCHANGED <<currentMode, machine, context, nextId>>

\* Toolbar Redo and its shortcut: commands.redo()
Redo ==
    /\ isNotDragging
    /\ Len(redoStack) > 0
    /\ currentMode = EDIT
    /\ LET command == redoStack[Len(redoStack)]
           after == CommandRedo(command, Graph, selectedElementIds)
       IN  /\ nodes' = after.graph.nodes
           /\ edges' = after.graph.edges
           /\ selectedElementIds' = after.selected
           /\ undoStack' = Append(undoStack, command)
           /\ redoStack' = SubSeq(redoStack, 1, Len(redoStack) - 1)
    /\ UNCHANGED <<algorithm, matrixInfo, solution, locals, timers>>
    /\ UNCHANGED <<currentMode, machine, context, nextId>>

\* Toolbar Select All and its shortcut: commands.selectAll()
SelectAll ==
    /\ isNotDragging
    /\ currentMode = EDIT
    /\ ~(Len(nodes) = 0 /\ Len(edges) = 0)
    /\ selectedElementIds' = ElementIds(Elements(nodes, edges))
    /\ UNCHANGED solverVars
    /\ UNCHANGED <<currentMode, undoStack, redoStack, machine, context, nextId>>

\* commands.deleteSelectedElements(): the selected elements and the edges at the
\* selected nodes, deleted by a DeleteElementsCommand that is registered
deleteSelectedElements ==
    LET selectedIds == selectedElements
        implicitlyDeletedEdgeIds ==
            {edges[e].id : e \in {d \in 1..Len(edges) :
                                     \/ edges[d].source \in selectedNodeIds
                                     \/ edges[d].target \in selectedNodeIds}}
        allIdsToDelete == selectedIds \cup implicitlyDeletedEdgeIds
        command == DeleteElementsCommand(getElementsByIds(Graph, allIdsToDelete))
        after == CommandRedo(command, Graph, selectedElementIds)
    IN  /\ selectedIds # {}
        /\ nodes' = after.graph.nodes
        /\ edges' = after.graph.edges
        /\ selectedElementIds' = after.selected
        /\ undoStack' = register(undoStack, command)
        /\ redoStack' = <<>>

\* Toolbar Delete and its shortcut
Delete ==
    /\ isNotDragging
    /\ currentMode = EDIT
    /\ selectedElements # {}
    /\ Len(undoStack) < MaxHistory
    /\ deleteSelectedElements
    /\ UNCHANGED <<algorithm, matrixInfo, solution, locals, timers>>
    /\ UNCHANGED <<currentMode, machine, context, nextId>>

\* Toolbar Grid > the other layout: commands.changeLayout(newLayout) clears the graph
\* and the history; canvas.resetView() leaves the selected ids
changeLayout ==
    /\ isNotDragging
    /\ currentMode = EDIT
    /\ nodes' = <<>>
    /\ edges' = <<>>
    /\ undoStack' = <<>>
    /\ redoStack' = <<>>
    /\ UNCHANGED <<algorithm, matrixInfo, solution, locals, timers>>
    /\ UNCHANGED <<currentMode, selectedElementIds, machine, context, nextId>>

\* graphSerializer.deserialize(content) of an exported file: count nodes on the cells
\* 1..count, each with the initial value initialOn, the first two joined or not
deserialize(count, initialOn, joined) ==
    [nodes |-> [i \in 1..count |->
                   [createNode(nextId + i, i) EXCEPT !.on = initialOn, !.initialOn = initialOn]],
     edges |-> IF joined /\ count >= 2
               THEN <<createEdge(nextId + count + 1, nextId + 1, nextId + 2)>>
               ELSE <<>>]

\* Inspector Import in EDIT mode: commands.importGraph(base64String) loads the graph and
\* clears the history
importGraph(count, initialOn, joined) ==
    LET newState == deserialize(count, initialOn, joined)
    IN  /\ currentMode = EDIT
        /\ nextId + Len(newState.nodes) + Len(newState.edges) <= MaxIds
        /\ nodes' = newState.nodes
        /\ edges' = newState.edges
        /\ nextId' = nextId + Len(newState.nodes) + Len(newState.edges)
        /\ undoStack' = <<>>
        /\ redoStack' = <<>>
        /\ UNCHANGED <<algorithm, matrixInfo, solution, locals, timers>>
        /\ UNCHANGED <<currentMode, selectedElementIds, machine, context>>

\* The application as it starts: an empty graph in EDIT mode
InitEdit ==
    /\ nodes = <<>>
    /\ edges = <<>>
    /\ algorithm = MIN_WEIGHT
    /\ matrixInfo = [n |-> 0, k |-> 0]
    /\ solution = Report("null", <<>>, "")
    /\ locals = NoLocals
    /\ timers = 0
    /\ NoEditing(EDIT)

\* Every canvas gesture, toolbar command and shortcut of EDIT mode
NextEdit ==
    \/ \E cell \in Cells, isMulti \in BOOLEAN : LeftMouseDownOnGhostNode(cell, isMulti)
    \/ \E cell \in Cells, isMulti \in BOOLEAN : LeftMouseDownOnNode(cell, isMulti)
    \/ \E e \in 1..Len(edges), isMulti \in BOOLEAN : LeftMouseDownOnEdge(e, isMulti)
    \/ \E isMulti \in BOOLEAN : LeftMouseDownOnEmptyArea(isMulti)
    \/ MouseMoveBeyondThreshold
    \/ LeftMouseUpOnPressed
    \/ \E end \in 0..MaxCells, isMulti \in BOOLEAN : LeftMouseUpOnDragging(end, isMulti)
    \/ \E overAll \in BOOLEAN, isMulti \in BOOLEAN : LeftMouseUpOnBoxSelecting(overAll, isMulti)
    \/ EscDown
    \/ \E cell \in Cells : ContextMenuOnNode(cell)
    \/ AltDown
    \/ AltUp
    \/ LeftMouseDownOnPreparePanning
    \/ \E altKey \in BOOLEAN : LeftMouseUpOnPanning(altKey)
    \/ Undo
    \/ Redo
    \/ SelectAll
    \/ Delete
    \/ changeLayout

SpecEdit == InitEdit /\ [][NextEdit]_vars

\* Building a graph and going to and fro between EDIT and SOLVER mode: the gestures
\* without the meta key, the history and graph commands, the import, the mode switches
\* and the restart
NextModes ==
    \/ \E cell \in Cells : LeftMouseDownOnGhostNode(cell, FALSE)
    \/ \E cell \in Cells : LeftMouseDownOnNode(cell, FALSE)
    \/ \E e \in 1..Len(edges) : LeftMouseDownOnEdge(e, FALSE)
    \/ LeftMouseDownOnEmptyArea(FALSE)
    \/ MouseMoveBeyondThreshold
    \/ LeftMouseUpOnPressed
    \/ \E end \in 0..MaxCells : LeftMouseUpOnDragging(end, FALSE)
    \/ \E overAll \in BOOLEAN : LeftMouseUpOnBoxSelecting(overAll, FALSE)
    \/ EscDown
    \/ Undo
    \/ Redo
    \/ SelectAll
    \/ Delete
    \/ changeLayout
    \/ \E count \in 0..MaxCells, initialOn \in BOOLEAN, joined \in BOOLEAN :
          importGraph(count, initialOn, joined)
    \/ switchToSolverMode
    \/ switchToEditMode
    \/ Restart

SpecModes == InitEdit /\ [][NextModes]_vars

\* Toolbar Initial State > Invert: commands.initInvertSelection()
InitInvertSelection ==
    /\ isNotDragging
    /\ currentMode = EDIT
    /\ selectedNodeIds # {}
    /\ Len(undoStack) < MaxHistory
    /\ LET command == InitInvertCommand(selectedNodeIds)
       IN  /\ nodes' = CommandRedo(command, Graph, selectedElementIds).graph.nodes
           /\ undoStack' = register(undoStack, command)
           /\ redoStack' = <<>>
    /\ UNCHANGED <<edges, algorithm, matrixInfo, solution, locals, timers>>
    /\ UNCHANGED <<currentMode, selectedElementIds, machine, context, nextId>>

\* Toolbar Initial State > Turn Off: commands.initTurnOffSelection(), enabled when a
\* selected node is initially on
InitTurnOffSelection ==
    /\ isNotDragging
    /\ currentMode = EDIT
    /\ \E i \in 1..Len(nodes) : nodes[i].id \in selectedElementIds /\ nodes[i].initialOn
    /\ Len(undoStack) < MaxHistory
    /\ LET command == InitTurnOffCommand(selectedNodeIds, nodes)
       IN  /\ nodes' = CommandRedo(command, Graph, selectedElementIds).graph.nodes
           /\ undoStack' = register(undoStack, command)
           /\ redoStack' = <<>>
    /\ UNCHANGED <<edges, algorithm, matrixInfo, solution, locals, timers>>
    /\ UNCHANGED <<currentMode, selectedElementIds, machine, context, nextId>>

\* The graph, the selection and the two stacks as one value
HistoryState ==
    [graph |-> Graph, selected |-> selectedElementIds,
     undoStack |-> undoStack, redoStack |-> redoStack]

\* history.undo() in EDIT mode, on the state h
undo(h) ==
    IF Len(h.undoStack) = 0 THEN h
    ELSE LET command == h.undoStack[Len(h.undoStack)]
             after == CommandUndo(command, h.graph, h.selected)
         IN  [graph |-> after.graph, selected |-> after.selected,
              undoStack |-> SubSeq(h.undoStack, 1, Len(h.undoStack) - 1),
              redoStack |-> Append(h.redoStack, command)]

\* history.redo(), on the state h
redo(h) ==
    IF Len(h.redoStack) = 0 THEN h
    ELSE LET command == h.redoStack[Len(h.redoStack)]
             after == CommandRedo(command, h.graph, h.selected)
         IN  [graph |-> after.graph, selected |-> after.selected,
              undoStack |-> Append(h.undoStack, command),
              redoStack |-> SubSeq(h.redoStack, 1, Len(h.redoStack) - 1)]

\* Editing with the toolbar commands and shortcuts given between the gestures, while
\* the machine is idle: the gestures without the meta key, the context menu, undo,
\* redo, select all, delete, the initial-state commands and the import
NextCommands ==
    \/ \E cell \in Cells : LeftMouseDownOnGhostNode(cell, FALSE)
    \/ \E cell \in Cells : LeftMouseDownOnNode(cell, FALSE)
    \/ \E e \in 1..Len(edges) : LeftMouseDownOnEdge(e, FALSE)
    \/ MouseMoveBeyondThreshold
    \/ LeftMouseUpOnPressed
    \/ \E end \in 0..MaxCells : LeftMouseUpOnDragging(end, FALSE)
    \/ \E cell \in Cells : ContextMenuOnNode(cell)
    \/ machine = "Idle" /\ Undo
    \/ machine = "Idle" /\ Redo
    \/ machine = "Idle" /\ SelectAll
    \/ machine = "Idle" /\ Delete
    \/ machine = "Idle" /\ InitInvertSelection
    \/ machine = "Idle" /\ InitTurnOffSelection
    \/ \E count \in 1..MaxCells, initialOn \in BOOLEAN, joined \in BOOLEAN :
          machine = "Idle" /\ importGraph(count, initialOn, joined)

SpecCommands == InitEdit /\ [][NextCommands]_vars

\* Idle, LEFT_MOUSE_DOWN off every node with isSolverMode: handleSolverModeLeftMouseDown
\* finds no node and the machine stays idle
LeftMouseDownOffNodeInSolverMode ==
    /\ machine = "Idle"
    /\ currentMode = SOLVER
    /\ UNCHANGED vars

\* The gestures that add nodes and edges and select, the context menu, ESC, the mode
\* switches and the clicks of SOLVER mode
NextGated ==
    \/ \E cell \in Cells : LeftMouseDownOnGhostNode(cell, FALSE)
    \/ \E cell \in Cells : LeftMouseDownOnNode(cell, FALSE)
    \/ \E e \in 1..Len(edges) : LeftMouseDownOnEdge(e, FALSE)
    \/ LeftMouseDownOnEmptyArea(FALSE)
    \/ MouseMoveBeyondThreshold
    \/ LeftMouseUpOnPressed
    \/ \E end \in 0..MaxCells : LeftMouseUpOnDragging(end, FALSE)
    \/ \E overAll \in BOOLEAN : LeftMouseUpOnBoxSelecting(overAll, FALSE)
    \/ EscDown
    \/ \E cell \in Cells : ContextMenuOnNode(cell)
    \/ switchToSolverMode
    \/ switchToEditMode
    \/ \E i \in 1..Len(nodes) : LeftMouseDownInSolverMode(nodes[i].id)
    \/ LeftMouseDownOffNodeInSolverMode

SpecGated == InitEdit /\ [][NextGated]_vars

\* The history store on its own.  A history begins with an AddElementsCommand of no
\* elements (what a drag that adds nothing registers) and goes on with base commands,
\* so that the undo stack shows whether its oldest entry is still there.
NextCommand ==
    IF Len(undoStack) = 0 THEN AddElementsCommand(Elements(<<>>, <<>>)) ELSE Command

\* history.register(command)
historyRegister(command) ==
    /\ undoStack' = register(undoStack, command)
    /\ redoStack' = <<>>
    /\ UNCHANGED solverVars
    /\ UNCHANGED <<currentMode, selectedElementIds, machine, context, nextId>>

\* history.undo(): nothing on an empty undo stack or outside EDIT mode
historyUndo ==
    /\ Len(undoStack) > 0
    /\ currentMode = EDIT
    /\ LET after == undo(HistoryState)
       IN  /\ nodes' = after.graph.nodes
           /\ edges' = after.graph.edges
           /\ selectedElementIds' = after.selected
           /\ undoStack' = after.undoStack
           /\ redoStack' = after.redoStack
    /\ UNCHANGED <<algorithm, matrixInfo, solution, locals, timers>>
    /\ UNCHANGED <<currentMode, machine, context, nextId>>

\* history.redo(): nothing on an empty redo stack; the mode is not looked at
historyRedo ==
    /\ Len(redoStack) > 0
    /\ LET after == redo(HistoryState)
       IN  /\ nodes' = after.graph.nodes
           /\ edges' = after.graph.edges
           /\ selectedElementIds' = after.selected
           /\ undoStack' = after.undoStack
           /\ redoStack' = after.redoStack
    /\ UNCHANGED <<algorithm, matrixInfo, solution, locals, timers>>
    /\ UNCHANGED <<currentMode, machine, context, nextId>>

\* history.popUndoWithoutRedo()
historyPopUndoWithoutRedo ==
    /\ Len(undoStack) > 0
    /\ undoStack' = popUndoWithoutRedo(undoStack)
    /\ UNCHANGED redoStack
    /\ UNCHANGED solverVars
    /\ UNCHANGED <<currentMode, selectedElementIds, machine, context, nextId>>

\* history.clear()
historyClear ==
    /\ Len(undoStack) + Len(redoStack) > 0
    /\ undoStack' = <<>>
    /\ redoStack' = <<>>
    /\ UNCHANGED solverVars
    /\ UNCHANGED <<currentMode, selectedElementIds, machine, context, nextId>>

NextHistory ==
    \/ historyRegister(NextCommand)
    \/ historyUndo
    \/ historyRedo
    \/ historyPopUndoWithoutRedo
    \/ historyClear
    \/ switchToSolverMode
    \/ switchToEditMode

SpecHistory == InitEdit /\ [][NextHistory]_vars

----------------------------------------------------------------------------
(* The serializer.  A text is held as what JSON.parse makes of it: an entry of an
   array is a number, [isArray |-> FALSE, items |-> <<v>>], or an array of integers,
   [isArray |-> TRUE, items |-> <<...>>].  JSON.stringify writes the integers and the
   arrays of integers it is given so that JSON.parse reads the same ones back. *)

\* GridType
GRID_SQUARE == 0
GRID_TRIANGULAR == 1

Num(v) == [isArray |-> FALSE, items |-> <<v>>]
Arr(s) == [isArray |-> TRUE, items |-> s]

\* A text that JSON.parse reads as an array
JsonArray(data) == [kind |-> "json", isArray |-> TRUE, data |-> data]
\* A text that JSON.parse reads as something else than an array
JsonOther == [kind |-> "json", isArray |-> FALSE, data |-> <<>>]
\* An empty or blank text, a text JSON.parse throws on, a string atob throws on
EmptyText == [kind |-> "empty", isArray |-> FALSE, data |-> <<>>]
InvalidJson == [kind |-> "invalidJson", isArray |-> FALSE, data |-> <<>>]
InvalidBase64 == [kind |-> "invalidBase64", isArray |-> FALSE, data |-> <<>>]

Ok(value) == [isOk |-> TRUE, value |-> value, error |-> ""]
Err(error) == [isOk |-> FALSE, value |-> [nodes |-> <<>>, edges |-> <<>>, grid |-> 0],
               error |-> error]

createNodeAt_off(id, gridX, gridY, type, initialOn) ==
    [id |-> id, gridX |-> gridX, gridY |-> gridY, type |-> type,
     on |-> FALSE, initialOn |-> initialOn]

\* createNode(gridX, gridY, type, initialOn); id stands for the drawn uuid
createNodeAt(id, gridX, gridY, type, initialOn) ==
    [id |-> id, gridX |-> gridX, gridY |-> gridY, type |-> type,
     on |-> initialOn, initialOn |-> initialOn]

\* a % b of JavaScript, for b > 0: the sign is the sign of a
JsRem(a, b) == IF a >= 0 THEN a % b ELSE 0 - ((0 - a) % b)

\* Math.min(...values) of a non-empty list
MathMin(values) ==
    CHOOSE v \in {values[i] : i \in 1..Len(values)} :
        \A i \in 1..Len(values) : v <= values[i]

\* Array.prototype.slice(start, end) with integer arguments
slice(s, start, end) ==
    LET len == Len(s)
        from == IF start < 0 THEN (IF len + start < 0 THEN 0 ELSE len + start)
                ELSE (IF start > len THEN len ELSE start)
        to == IF end < 0 THEN (IF len + end < 0 THEN 0 ELSE len + end)
              ELSE (IF end > len THEN len ELSE end)
    IN  IF from >= to THEN <<>> ELSE SubSeq(s, from + 1, to)

\* nodeIndexMap.get(id): the 0-based index of the last node with the id, -1 for
\* undefined
NodeIndex(ns, id) ==
    LET at == {i \in 1..Len(ns) : ns[i].id = id}
    IN  IF at = {} THEN 0 - 1 ELSE (CHOOSE i \in at : \A j \in at : j <= i) - 1

\* The edge passes the endpoint test of serialize
EdgeIsWritten(ns, e) == NodeIndex(ns, e.source) >= 0 /\ NodeIndex(ns, e.target) >= 0

\* graphSerializer.serialize(sources): the array that is written
serialize(sources) ==
    LET ns == sources.nodes
        grid == sources.grid
        xs == [i \in 1..Len(ns) |-> ns[i].gridX]
        ys == [i \in 1..Len(ns) |-> ns[i].gridY]
        minGridX == IF grid \in {GRID_SQUARE, GRID_TRIANGULAR} THEN MathMin(xs) ELSE 0
        minGridY == IF grid = GRID_SQUARE THEN MathMin(ys)
                    ELSE IF grid = GRID_TRIANGULAR
                         THEN MathMin(ys) - JsRem(MathMin(ys), 2)
                         ELSE 0
        written == {e \in 1..Len(sources.edges) : EdgeIsWritten(ns, sources.edges[e])}
        WrittenBefore(e) == Cardinality({d \in written : d < e})
        edgeEntries ==
            [k \in 1..Cardinality(written) |->
                LET e == CHOOSE d \in written : WrittenBefore(d) = k - 1
                IN  Arr(<<NodeIndex(ns, sources.edges[e].source),
                          NodeIndex(ns, sources.edges[e].target)>>)]
    IN  IF Len(ns) = 0
        THEN JsonArray(<<Num(grid), Num(0)>>)
        ELSE JsonArray(<<Num(grid), Num(Len(ns))>>
                       \o [i \in 1..Len(ns) |->
                              Arr(<<ns[i].gridX - minGridX, ns[i].gridY - minGridY,
                                    ns[i].type, IF ns[i].initialOn THEN 1 ELSE 0>>)]
                       \o edgeEntries)

\* The tests of the two forEach callbacks of deserialize
IsNodeData(entry) == entry.isArray /\ Len(entry.items) = 4
IsEdgeData(entry) == entry.isArray /\ Len(entry.items) = 2

\* newNodes[index] is defined
HasNodeAt(newNodes, index) == index >= 0 /\ index < Len(newNodes)

\* graphSerializer.deserialize(content); the ids drawn are firstId + 1, firstId + 2, ...
\* in the order of creation.  A return inside a forEach callback ends the callback
\* only: the entry is left out and the loop goes on.
deserializeContent(content, firstId) ==
    IF content.kind = "empty" THEN Err("File is empty.")
    ELSE IF content.kind = "invalidJson" THEN Err("Invalid JSON format.")
    ELSE IF ~content.isArray \/ Len(content.data) < 2
    THEN Err("Invalid data format: expected an array with at least 2 elements.")
    ELSE
      LET raw == slice(content.data, 2, Len(content.data))
          gridTypeNum == content.data[1]
          nodeCount == content.data[2]
      IN  IF gridTypeNum.isArray
             \/ gridTypeNum.items[1] \notin {GRID_SQUARE, GRID_TRIANGULAR}
          THEN Err("Invalid layout type: ")
          ELSE IF nodeCount.isArray
                  \/ Len(slice(raw, 0, nodeCount.items[1])) # nodeCount.items[1]
          THEN Err("Node count mismatch in data.")
          ELSE
            LET parsedNodes == slice(raw, 0, nodeCount.items[1])
                parsedEdges == slice(raw, nodeCount.items[1], Len(raw))
                nodeData == SelectSeq(parsedNodes, IsNodeData)
                newNodes == [i \in 1..Len(nodeData) |->
                                createNodeAt(firstId + i,
                                             nodeData[i].items[1], nodeData[i].items[2],
                                             nodeData[i].items[3], nodeData[i].items[4] = 1)]
                Joins(entry) == /\ IsEdgeData(entry)
                                /\ HasNodeAt(newNodes, entry.items[1])
                                /\ HasNodeAt(newNodes, entry.items[2])
                edgeData == SelectSeq(parsedEdges, Joins)
                newEdges == [e \in 1..Len(edgeData) |->
                                createEdge(firstId + Len(newNodes) + e,
                                           newNodes[edgeData[e].items[1] + 1].id,
                                           newNodes[edgeData[e].items[2] + 1].id)]
            IN  Ok([nodes |-> newNodes, edges |-> newEdges,
                    grid |-> gridTypeNum.items[1]])

\* The stores importGraph reads and writes: the graph store with its grid, the two
\* stacks of the history store, and the selection and the offset of the canvas store
Stores(grid, offset) ==
    [graph |-> [nodes |-> nodes, edges |-> edges, grid |-> grid],
     undoStack |-> undoStack, redoStack |-> redoStack,
     selectedElementIds |-> selectedElementIds, viewClientOffset |-> offset]

importGraphStores_clearsFirst(s, content, firstId) ==
    LET cleared == [s EXCEPT !.undoStack = <<>>, !.redoStack = <<>>]
    IN  IF content.kind = "invalidBase64"
        THEN [result |-> Err("Invalid Base64 string."), stores |-> s]
        ELSE LET newStateResult == deserializeContent(content, firstId)
             IN  IF ~newStateResult.isOk
                 THEN [result |-> Err(newStateResult.error), stores |-> cleared]
                 ELSE [result |-> newStateResult,
                       stores |-> [graph |-> newStateResult.value,
                                   undoStack |-> <<>>, redoStack |-> <<>>,
                                   selectedElementIds |-> s.selectedElementIds,
                                   viewClientOffset |->
                                       IF Len(newStateResult.value.nodes) = 0
                                       THEN "origin" ELSE "centered"]]

\* commands.importGraph(base64String) on the stores s: graph.load, history.clear,
\* canvas.resetView (the offset to the origin; it leaves the selected ids) and
\* canvas.centerViewOnGraph (nothing for a graph without nodes)
importGraphStores(s, content, firstId) ==
    IF content.kind = "invalidBase64"
    THEN [result |-> Err("Invalid Base64 string."), stores |-> s]
    ELSE LET newStateResult == deserializeContent(content, firstId)
         IN  IF ~newStateResult.isOk
             THEN [result |-> Err(newStateResult.error), stores |-> s]
             ELSE [result |-> newStateResult,
                   stores |-> [graph |-> newStateResult.value,
                               undoStack |-> <<>>, redoStack |-> <<>>,
                               selectedElementIds |-> s.selectedElementIds,
                               viewClientOffset |->
                                   IF Len(newStateResult.value.nodes) = 0
                                   THEN "origin" ELSE "centered"]]

\* Files of at most MaxFileEntries entries after the grid type and the node count
MaxFileEntries == 3
\* The ids drawn in one run of imports
MaxFileIds == 3

\* The entries of the files: two nodes, the edges from the index 0 to the index 1 and
\* to itself, and an array of three numbers
FileEntries ==
    {Arr(<<0, 0, 0, 0>>), Arr(<<1, 0 - 1, 2, 1>>),
     Arr(<<0, 1>>), Arr(<<0, 0>>), Arr(<<0, 0, 0>>)}

FileEntrySeqs == UNION {[1..len -> FileEntries] : len \in 0..MaxFileEntries}

\* The strings handed to importGraph: every file with a grid type 0 or 1, a node count
\* from 0 to 2 and the entries above; files with another grid type, with a node count
\* that is negative, too large or an array, with a number for an entry, with an edge
\* from the index -1 or from the index 1 to the index 0, with a grid type that is an
\* array; arrays of fewer than two entries; and the texts that are no array, no JSON,
\* empty, and no Base64
Contents ==
    {JsonArray(<<Num(g), Num(c)>> \o es) : g \in 0..1, c \in 0..2, es \in FileEntrySeqs}
    \cup {JsonArray(<<Num(2), Num(1), Arr(<<0, 0, 0, 0>>)>>),
          JsonArray(<<Num(0), Num(0 - 1), Arr(<<0, 0, 0, 0>>)>>),
          JsonArray(<<Num(1), Num(2), Arr(<<0, 0, 0, 0>>)>>),
          JsonArray(<<Num(0), Arr(<<1>>), Arr(<<0, 0, 0, 0>>)>>),
          JsonArray(<<Num(0), Num(1), Num(7)>>),
          JsonArray(<<Num(0), Num(1), Arr(<<0, 0, 0, 0>>), Num(7)>>),
          JsonArray(<<Num(0), Num(1), Arr(<<0, 0, 0, 0>>), Arr(<<0 - 1, 0>>)>>),
          JsonArray(<<Num(1), Num(2), Arr(<<0, 0, 0, 0>>), Arr(<<1, 0, 0, 1>>),
                      Arr(<<1, 0>>)>>),
          JsonArray(<<Arr(<<0>>), Num(0)>>),
          JsonArray(<<Num(0)>>), JsonArray(<<>>),
          JsonOther, InvalidJson, EmptyText, InvalidBase64}

\* Inspector Import in EDIT mode with any string: commands.importGraph(base64String)
importContent(content) ==
    LET after == importGraphStores(Stores(GRID_SQUARE, "origin"), content, nextId)
        drawn == Len(after.stores.graph.nodes) + Len(after.stores.graph.edges)
    IN  /\ currentMode = EDIT
        /\ IF after.result.isOk
           THEN /\ nextId + drawn <= MaxFileIds
                /\ nodes' = after.stores.graph.nodes
                /\ edges' = after.stores.graph.edges
                /\ undoStack' = after.stores.undoStack
                /\ redoStack' = after.stores.redoStack
                /\ selectedElementIds' = after.stores.selectedElementIds
                /\ nextId' = nextId + drawn
           ELSE UNCHANGED <<nodes, edges, undoStack, redoStack, selectedElementIds, nextId>>
        /\ UNCHANGED <<algorithm, matrixInfo, solution, locals, timers>>
        /\ UNCHANGED <<currentMode, machine, context>>

\* graph.addEdge(sourceId, targetId) between two nodes of the graph
graphAddEdge(sourceId, targetId) ==
    /\ nextId < MaxFileIds
    /\ edges' = addEdge(nodes, edges, nextId + 1, sourceId, targetId)
    /\ nextId' = IF edges' = edges THEN nextId ELSE nextId + 1
    /\ UNCHANGED <<nodes, algorithm, matrixInfo, solution, locals, timers>>
    /\ UNCHANGED <<currentMode, selectedElementIds, undoStack, redoStack, machine, context>>

\* Imports of any string, with edges added, a command registered and everything
\* selected in between
NextImport ==
    \/ \E content \in Contents : importContent(content)
    \/ \E s, t \in {nodes[i].id : i \in 1..Len(nodes)} : graphAddEdge(s, t)
    \/ Len(undoStack) < 1 /\ historyRegister(NextCommand)
    \/ SelectAll

SpecImport == InitEdit /\ [][NextImport]_vars

----------------------------------------------------------------------------
(* Linear algebra over GF(2), stated from the graph and not from the solver *)

\* A = I + adjacency: A[i][j] = 1 iff i = j or some edge joins node i and node j
InfluenceMatrix(ns, es) ==
    [i \in 1..Len(ns) |->
        [j \in 1..Len(ns) |->
            IF i = j \/ \E e \in 1..Len(es) :
                           {es[e].source, es[e].target} = {ns[i].id, ns[j].id}
            THEN 1 ELSE 0]]

\* (A * x)[i] = the parity of the number of j with A[i][j] = x[j] = 1
MatVec(A, x) ==
    [i \in 1..Len(A) |-> Cardinality({j \in 1..Len(x) : A[i][j] = 1 /\ x[j] = 1}) % 2]

\* b[i] = 0 if node i is on and 1 if it is off
TargetVector(ns) == [i \in 1..Len(ns) |-> IF ns[i].on THEN 0 ELSE 1]

\* x[i] = 1 iff node i's id is in the press list
PressVector(ns, press) ==
    [i \in 1..Len(ns) |-> IF \E p \in 1..Len(press) : press[p] = ns[i].id THEN 1 ELSE 0]

\* GF(2)^n
AllVectors(n) == [1..n -> {0, 1}]

\* All x with A * x = b
Solutions(A, b) == {x \in AllVectors(Len(A)) : MatVec(A, x) = b}

\* The number of 1 entries of x
Hamming(x) == Cardinality({i \in 1..Len(x) : x[i] = 1})

\* xp XOR the sum of the basis vectors whose index is in S
SubsetXor(xp, basis, S) ==
    [l \in 1..Len(xp) |->
        (xp[l] + Cardinality({f \in S : basis[f][l] = 1})) % 2]

RECURSIVE PressAllFrom(_, _, _, _)
\* The nodes after pressing press[p], press[p+1], ... once each
PressAllFrom(ns, es, press, p) ==
    IF p > Len(press) THEN ns
    ELSE PressAllFrom(toggleNodeAndNeighborsOnById(ns, es, press[p]), es, press, p + 1)

\* The graph's matrix, target and solution set, and the nodes after the reported presses
GraphA == InfluenceMatrix(nodes, edges)
GraphB == TargetVector(nodes)
GraphSolutions == Solutions(GraphA, GraphB)
GraphNullSpace == Solutions(GraphA, Zeros(Len(nodes)))
AfterPresses == PressAllFrom(nodes, edges, solution.nodesToPress, 1)

\* The press list names nodes of the graph, each at most once
PressListWellFormed ==
    /\ \A p \in 1..Len(solution.nodesToPress) :
          \E i \in 1..Len(nodes) : nodes[i].id = solution.nodesToPress[p]
    /\ \A p, q \in 1..Len(solution.nodesToPress) :
          p # q => solution.nodesToPress[p] # solution.nodesToPress[q]

----------------------------------------------------------------------------
(* Claims *)

\* C1: whenever a report says hasSolution = true, in mode any and in mode min_weight,
\* the press vector x of nodesToPress satisfies A * x = b over GF(2), with A = I +
\* adjacency rebuilt from the nodes and edges and b[i] = 0 for an on node, 1 for an
\* off node; the press list names only nodes of the graph, none twice.
C1_PressVectorSolves ==
    solution.hasSolution = "true" =>
        /\ Len(nodes) >= 1
        /\ PressListWellFormed
        /\ MatVec(GraphA, PressVector(nodes, solution.nodesToPress)) = GraphB

\* C1 happens: mode any took the arbitrary-solution return with a non-empty press list
\* on a graph with an edge.
C1_Witness ==
    /\ solution.hasSolution = "true"
    /\ locals.algorithm = ANY
    /\ solution.message = MsgArbitrary
    /\ solution.nodesToPress # <<>>
    /\ edges # <<>>

\* C2 as stated: the solve targets all-off, the target entry of node i is 1 exactly
\* when node i is on, and pressing the reported nodes once each leaves every node off.
C2_TargetsAllOff ==
    solution.hasSolution = "true" =>
        /\ \A i \in 1..Len(nodes) :
              (BuildM(nodes, edges)[i][Len(nodes) + 1] = 1) <=> nodes[i].on
        /\ \A i \in 1..Len(nodes) : ~AfterPresses[i].on

\* C2 amended: the solve targets all-on. The target entry of node i is 1 exactly when
\* node i is off, and pressing the reported nodes once each (each press toggling the
\* node and its neighbours) leaves every node on; a single isolated node yields the
\* press list holding that node exactly when it is off.
C2_TargetsAllOn ==
    solution.hasSolution = "true" =>
        /\ \A i \in 1..Len(nodes) :
              (BuildM(nodes, edges)[i][Len(nodes) + 1] = 1) <=> ~nodes[i].on
        /\ \A i \in 1..Len(nodes) : AfterPresses[i].on
        /\ Len(nodes) = 1 =>
              /\ ~nodes[1].on => solution.nodesToPress = <<nodes[1].id>>
              /\ nodes[1].on => solution.nodesToPress = <<>>

\* C2 happens: a solved graph with an edge and an off node, the presses reaching all-on
\* and changing a neighbour on the way.
C2_Witness ==
    /\ solution.hasSolution = "true"
    /\ edges # <<>>
    /\ \E i \in 1..Len(nodes) : ~nodes[i].on
    /\ Len(solution.nodesToPress) >= 2
    /\ \A i \in 1..Len(nodes) : AfterPresses[i].on

\* The three nodes are mutually connected and all on
TriangleAllOn ==
    /\ Len(nodes) = 3
    /\ \A i \in 1..3 : nodes[i].on
    /\ \A i, j \in 1..3 : InfluenceMatrix(nodes, edges)[i][j] = 1

\* C3: for n >= 1 a report says hasSolution = false, with the message "Failed: No
\* solution exists.", exactly when no x in GF(2)^n satisfies A * x = b, and says
\* hasSolution = true exactly when some x does; for the all-on triangle the report is
\* hasSolution = true, as the hand computation gives.
C3_UnsolvableIffNoVector ==
    (Len(nodes) >= 1 /\ solution.hasSolution # "null") =>
        /\ solution.hasSolution = "false" <=> GraphSolutions = {}
        /\ solution.hasSolution = "true" <=> GraphSolutions # {}
        /\ solution.hasSolution = "false" => solution.message = MsgFailed
        /\ TriangleAllOn => solution.hasSolution = "true"

\* C3 happens: a non-empty graph was solved and reported unsolvable.
C3_Witness ==
    /\ Len(nodes) >= 2
    /\ solution.hasSolution = "false"
    /\ solution.message = MsgFailed
    /\ locals.exit = "failed"

MatrixInfoSet == Len(nodes) = 0 \/ matrixInfo.n # 0

\* C5: computeMatrixInfo returns n = the number of nodes and k = the nullity of
\* A = I + adjacency: 0 <= k <= n (rank = n - k) and exactly 2^k vectors x of GF(2)^n
\* satisfy A * x = 0.
C5_NullityIsTrue ==
    MatrixInfoSet =>
        /\ matrixInfo.n = Len(nodes)
        /\ matrixInfo.k \in 0..matrixInfo.n
        /\ Cardinality(GraphNullSpace) = 2 ^ matrixInfo.k

\* C5 happens: matrix info was computed for a graph with edges and a null space of
\* dimension 2.
C5_Witness ==
    /\ matrixInfo.n >= 3
    /\ matrixInfo.k = 2
    /\ edges # <<>>

\* C6: the nullity k of computeMatrixInfo's forward elimination on A equals the number
\* of columns left without a pivot by computeSolution's Gauss-Jordan pass on [A|b],
\* for every on-assignment, solvable or not, and so the number of free columns and of
\* null-space basis vectors where computeSolution builds them.
C6_EliminationsAgree ==
    (MatrixInfoSet /\ locals.exit \notin {"none", "empty"}) =>
        /\ matrixInfo.k = locals.N - locals.rank
        /\ locals.rank = Len(locals.pivotCols)
        /\ locals.exit \in {"unique", "any", "min_weight"} =>
              matrixInfo.k = Len(locals.freeCols)
        /\ locals.exit = "min_weight" => matrixInfo.k = Len(locals.nullSpaceBasis)

\* C6 happens: both routines ran on a graph with a free column and an off node.
C6_Witness ==
    /\ matrixInfo.n >= 2
    /\ matrixInfo.k >= 1
    /\ locals.exit = "min_weight"
    /\ Len(locals.nullSpaceBasis) = matrixInfo.k
    /\ \E i \in 1..Len(nodes) : ~nodes[i].on

\* C7: every null-space basis vector v built by computeSolution has A * v = 0; the
\* basis vectors are linearly independent (XORing different subsets into the
\* particular solution gives different vectors); and the vectors so obtained are
\* exactly the solutions of A * x = b.
C7_BasisSpansNullSpace ==
    locals.exit = "min_weight" =>
        LET basis == locals.nullSpaceBasis
            subsets == SUBSET (1..Len(basis))
        IN  /\ \A f \in 1..Len(basis) :
                  /\ Len(basis[f]) = Len(nodes)
                  /\ MatVec(GraphA, basis[f]) = Zeros(Len(nodes))
            /\ \A S, T \in subsets :
                  S # T => SubsetXor(locals.xp, basis, S) # SubsetXor(locals.xp, basis, T)
            /\ {SubsetXor(locals.xp, basis, S) : S \in subsets} = GraphSolutions

\* C7 happens: computeSolution built two basis vectors.
C7_Witness ==
    /\ locals.exit = "min_weight"
    /\ Len(locals.nullSpaceBasis) = 2
    /\ Cardinality(GraphSolutions) = 4

\* C8: every computeSolution call ends in one outcome with its message: n = 0 gives
\* "No nodes to solve."; an inconsistent system "Failed: No solution exists."; a
\* consistent system of nullity 0 "Success: Unique solution found." in either mode; a
\* consistent system of nullity > 0 "Success: Arbitrary solution found." in mode any,
\* the press list being the particular solution, and "Success: Min-Move solution
\* found." in mode min_weight, also when the particular solution is the minimum.
C8_OutcomeFixesMessage ==
    solution.hasSolution # "null" =>
        LET consistent == GraphSolutions # {}
            nullity0 == Cardinality(GraphNullSpace) = 1
            expected ==
                IF Len(nodes) = 0 THEN MsgNoNodes
                ELSE IF ~consistent THEN MsgFailed
                ELSE IF nullity0 THEN MsgUnique
                ELSE IF locals.algorithm = ANY THEN MsgArbitrary
                ELSE MsgMinMove
        IN  /\ solution.message = expected
            /\ solution.hasSolution = (IF Len(nodes) > 0 /\ consistent THEN "true" ELSE "false")
            /\ solution.message = MsgArbitrary =>
                  PressVector(nodes, solution.nodesToPress) = locals.xp
            /\ locals.exit \in {"empty", "failed", "unique", "any", "min_weight"}

\* C8 happens: mode min_weight on a system of nullity > 0 whose particular solution is
\* already a minimum, reported as Min-Move.
C8_Witness ==
    /\ solution.message = MsgMinMove
    /\ locals.algorithm = MIN_WEIGHT
    /\ Len(locals.freeCols) >= 1
    /\ PressVector(nodes, solution.nodesToPress) = locals.xp

\* C9: for a graph with zero nodes a solve reports hasSolution = false, an empty press
\* list and "No nodes to solve.", which is not the unsolvable message, and the matrix
\* info is {n: 0, k: 0}.
C9_EmptyGraphReport ==
    Len(nodes) = 0 =>
        /\ solution.hasSolution # "null" =>
              /\ solution = Report("false", <<>>, MsgNoNodes)
              /\ solution.message # MsgFailed
        /\ matrixInfo = [n |-> 0, k |-> 0]
        /\ computeMatrixInfo(nodes, edges) = [n |-> 0, k |-> 0]

\* C9 happens: the empty graph was solved.
C9_Witness ==
    /\ Len(nodes) = 0
    /\ solution.message = MsgNoNodes

\* C10 as stated: for n = 0 the solve reports that a solution exists and returns the
\* empty press list.
C10_EmptyGraphSolvable ==
    (Len(nodes) = 0 /\ solution.hasSolution # "null") =>
        /\ solution.hasSolution = "true"
        /\ solution.nodesToPress = <<>>

\* C10 amended: for n = 0 the solve reports that no solution exists (hasSolution =
\* false) and returns the empty press list.
C10_EmptyGraphUnsolved ==
    (Len(nodes) = 0 /\ solution.hasSolution # "null") =>
        /\ solution.hasSolution = "false"
        /\ solution.nodesToPress = <<>>

\* C10 happens: computeSolution took its n = 0 return.
C10_Witness ==
    /\ Len(nodes) = 0
    /\ locals.exit = "empty"
    /\ solution.hasSolution = "false"

\* C12: solving does not mutate the graph. Every step of the solver store leaves the
\* graph store's nodes (ids, order, on, initialOn) and edges as they were, and the
\* canvas and history stores too; a step that changes solver.matrixInfo changes
\* nothing else of the solver store, and a step that changes solver.solution leaves
\* solver.matrixInfo alone.
C12_SolvingKeepsGraph ==
    [][/\ nodes' = nodes
       /\ edges' = edges
       /\ UNCHANGED editVars
       /\ matrixInfo' # matrixInfo =>
             (solution' = solution /\ algorithm' = algorithm /\ locals' = locals)
       /\ solution' # solution => matrixInfo' = matrixInfo]_vars

\* C12 happens: setMatrixInfo and setSolution have both run on a graph with edges and
\* a node that is off, and the report names nodes to press.
C12_Witness ==
    /\ matrixInfo.n >= 2
    /\ edges # <<>>
    /\ solution.hasSolution = "true"
    /\ solution.nodesToPress # <<>>
    /\ \E i \in 1..Len(nodes) : ~nodes[i].on

\* C14 as stated: the stored report changes only in a step that runs computeSolution
\* on the graph and replaces the whole report with its result.
C14_ReportOnlyReplaced ==
    [][solution' # solution =>
          /\ locals' = computeSolutionRun(nodes', edges', algorithm')
          /\ solution' = locals'.result]_vars

\* The press list of report r is that of report q without the id of one node
RemovedOne(q, r) ==
    \E i \in 1..Len(nodes) :
        /\ \E p \in 1..Len(q.nodesToPress) : q.nodesToPress[p] = nodes[i].id
        /\ r.nodesToPress = SelectSeq(q.nodesToPress, LAMBDA id : id # nodes[i].id)
        /\ nodes' = toggleNodeAndNeighborsOnById(nodes, edges, nodes[i].id)

\* C14 amended: the stored report changes in two ways only. A click in SOLVER mode on a
\* node of the press list of a solved report removes that node's id from nodesToPress
\* in place, leaving hasSolution and message as they were, without a solve; and a solve
\* request replaces the whole report with the one newly computed from the graph.
C14_ReportReplacedOrShortened ==
    [][solution' # solution =>
          \/ /\ currentMode = SOLVER
             /\ locals' = locals
             /\ solution.hasSolution = "true"
             /\ solution'.hasSolution = solution.hasSolution
             /\ solution'.message = solution.message
             /\ RemovedOne(solution, solution')
          \/ /\ solution' = locals'.result
             /\ locals' = computeSolutionRun(nodes', edges', algorithm')]_vars

\* C14 happens: the stored report is a solved one that no solve computed, its press
\* list shortened by a click.
C14_Witness ==
    /\ currentMode = SOLVER
    /\ solution.hasSolution = "true"
    /\ solution # locals.result
    /\ Len(solution.nodesToPress) < Len(locals.result.nodesToPress)

\* C20: in SOLVER mode, after any sequence of node clicks, algorithm switches and
\* restarts, whenever the stored report says hasSolution = true its press list names
\* nodes of the graph, none twice, and its press vector x satisfies A * x = b for the
\* graph's current on values (b[i] = 1 iff node i is off).
C20_StoredListSolvesCurrent ==
    (currentMode = SOLVER /\ solution.hasSolution = "true") =>
        /\ PressListWellFormed
        /\ MatVec(GraphA, PressVector(nodes, solution.nodesToPress)) = GraphB

\* C20 happens: in mode any, after a click on a node of the list, the shortened list
\* still names a node, and some node is off.
C20_Witness ==
    /\ currentMode = SOLVER
    /\ algorithm = ANY
    /\ solution.hasSolution = "true"
    /\ solution # locals.result
    /\ solution.nodesToPress # <<>>
    /\ \E i \in 1..Len(nodes) : ~nodes[i].on

\* The graph is two nodes joined by one edge
TwoJoined == Len(nodes) = 2 /\ Len(edges) = 1

\* The report and locals of the two joined nodes' hand computation
PairWorked ==
    /\ locals.rank = 1
    /\ Len(locals.freeCols) = 1
    /\ computeMatrixInfo(nodes, edges).k = 1
    /\ locals.xp = <<0, 0>>
    /\ locals.nullSpaceBasis = <<(<<1, 1>>)>>
    /\ solution.message = MsgMinMove

\* C16 as stated: when every node is off, a min_weight solve returns the empty press
\* list; for two joined nodes, both off, with rank 1, k = 1, particular solution
\* [0,0], basis [[1,1]] and the Min-Move message.
C16_AllOffEmptyPress ==
    (solution.hasSolution # "null" /\ locals.algorithm = MIN_WEIGHT
         /\ \A i \in 1..Len(nodes) : ~nodes[i].on) =>
        /\ solution.nodesToPress = <<>>
        /\ TwoJoined => PairWorked

\* C16 amended: when every node is on, a min_weight solve returns the empty press
\* list (weight 0); for two nodes joined by one edge, both on, this comes with
\* rank 1, k = 1, particular solution [0,0], null-space basis [[1,1]] and the message
\* "Success: Min-Move solution found.".
C16_AllOnEmptyPress ==
    (solution.hasSolution # "null" /\ locals.algorithm = MIN_WEIGHT
         /\ \A i \in 1..Len(nodes) : nodes[i].on) =>
        /\ solution.nodesToPress = <<>>
        /\ TwoJoined => PairWorked

\* C16 happens: two joined nodes, both on, were solved in min_weight mode by the
\* search over the two candidates.
C16_Witness ==
    /\ TwoJoined
    /\ \A i \in 1..2 : nodes[i].on
    /\ locals.exit = "min_weight"
    /\ solution.nodesToPress = <<>>
    /\ Weight(Candidate(locals.xp, locals.nullSpaceBasis, 1)) = 2

----------------------------------------------------------------------------
(* Claims about the solver on arbitrary lists *)

\* The ids of a node list
IdSet(ns) == {ns[i].id : i \in 1..Len(ns)}

\* The edges whose two endpoints are ids of the node list, in their order
KnownEdges(ns, es) ==
    SelectSeq(es, LAMBDA e : e.source \in IdSet(ns) /\ e.target \in IdSet(ns))

\* An edge with an endpoint that is no id of the node list
IsDangling(ns, e) == e.source \notin IdSet(ns) \/ e.target \notin IdSet(ns)

\* An edge joining two different nodes of the node list
JoinsTwo(ns, e) == ~IsDangling(ns, e) /\ e.source # e.target

\* C11: computeSolution and computeMatrixInfo return a result for every node list and
\* every edge list: hasSolution is true or false, false exactly when the graph is
\* empty or no x satisfies A * x = b; whenever it is false the press list is empty
\* and no particular solution was built; edges with an endpoint that is no id of the
\* node list are skipped, the results being those of the list without them.
C11_UnsolvableIsReturned ==
    solution.hasSolution # "null" =>
        /\ solution.hasSolution \in {"true", "false"}
        /\ solution.hasSolution = "false" <=> (Len(nodes) = 0 \/ GraphSolutions = {})
        /\ solution.hasSolution = "false" =>
              /\ solution.nodesToPress = <<>>
              /\ locals.exit \in {"empty", "failed"}
              /\ locals.xp = <<>>
        /\ solution = computeSolution(nodes, KnownEdges(nodes, edges), algorithm)
        /\ matrixInfo = computeMatrixInfo(nodes, KnownEdges(nodes, edges))
        /\ matrixInfo.n = Len(nodes)
        /\ matrixInfo.k \in 0..Len(nodes)

\* C11 happens: a list with a dangling edge and an edge joining two nodes was found
\* unsolvable.
C11_Witness ==
    /\ solution.hasSolution = "false"
    /\ locals.exit = "failed"
    /\ \E e \in 1..Len(edges) : IsDangling(nodes, edges[e])
    /\ \E e \in 1..Len(edges) : JoinsTwo(nodes, edges[e])

\* The nodes after pressing once each node i with x[i] = 1
PressedBy(x) == PressAllFrom(nodes, edges, IdsToPress(x, NodeIds(nodes)), 1)

\* C17: for every node list, edge list (any order, pairs listed twice or reversed,
\* endpoints missing from the node list) and press vector x, pressing each node with
\* x[i] = 1 once flips the on value of exactly the nodes j with (A * x)[j] = 1, A
\* being the matrix computeMatrixInfo builds, which is also the left part of the
\* matrix computeSolution builds.
C17_PressIsLinearMap ==
    LET A == BuildA(nodes, edges)
        M == BuildM(nodes, edges)
    IN  \A x \in AllVectors(Len(nodes)) :
            LET after == PressedBy(x)
                Ax == MatVec(A, x)
                Mx == MatVec(M, x)
            IN  \A j \in 1..Len(nodes) :
                    /\ (after[j].on # nodes[j].on) <=> (Ax[j] = 1)
                    /\ Mx[j] = Ax[j]

\* C17 happens: two nodes joined by edges listed in both directions, the press of one
\* flipping the other, and both pressed flipping neither.
C17_Witness ==
    /\ Len(nodes) = 2
    /\ Len(edges) = 2
    /\ JoinsTwo(nodes, edges[1])
    /\ edges[2] = [source |-> edges[1].target, target |-> edges[1].source]
    /\ PressedBy(<<1, 0>>)[2].on # nodes[2].on
    /\ PressedBy(<<1, 1>>) = nodes
    /\ matrixInfo.n = 2

\* es in the opposite order
Reverse(es) == [e \in 1..Len(es) |-> es[Len(es) + 1 - e]]

\* es with source and target of edge e exchanged
SwapAt(es, e) ==
    [es EXCEPT ![e] = [es[e] EXCEPT !.source = es[e].target, !.target = es[e].source]]

\* es reversed, es with one edge turned round, es with one edge listed once more
EdgeListVariants(es) ==
    {Reverse(es)}
        \cup {SwapAt(es, e) : e \in 1..Len(es)}
        \cup {Append(es, es[e]) : e \in 1..Len(es)}

\* C18: the matrix built from any node and edge list is symmetric with a unit
\* diagonal and has A[i][j] = 1 for i # j exactly when some edge joins node i and
\* node j; listing an edge twice, turning an edge round or reordering the list gives
\* the same matrix, the same {n, k} and the same solve result.
C18_InfluenceMatrixSymmetric ==
    LET A == BuildA(nodes, edges)
        M == BuildM(nodes, edges)
        N == Len(nodes)
    IN  /\ \A i, j \in 1..N : A[i][j] = A[j][i] /\ A[i][i] = 1 /\ M[i][j] = A[i][j]
        /\ A = InfluenceMatrix(nodes, edges)
        /\ \A v \in EdgeListVariants(edges) : BuildA(nodes, v) = A
        /\ solution.hasSolution # "null" =>
              \A v \in EdgeListVariants(edges) :
                  /\ computeMatrixInfo(nodes, v) = matrixInfo
                  /\ computeSolution(nodes, v, algorithm) = solution

\* C18 happens: a solved list of two different edges, one of them joining two nodes.
C18_Witness ==
    /\ Len(nodes) = 2
    /\ Len(edges) = 2
    /\ edges[1] # edges[2]
    /\ JoinsTwo(nodes, edges[2])
    /\ BuildA(nodes, edges)[1][2] = 1
    /\ matrixInfo.n = 2
    /\ solution.hasSolution = "true"

\* The node list in ascending order of id
SortedById(ns) ==
    [i \in 1..Len(ns) |->
        ns[CHOOSE k \in 1..Len(ns) :
               Cardinality({j \in 1..Len(ns) : ns[j].id < ns[k].id}) = i - 1]]

----------------------------------------------------------------------------
(* Claims about editing *)

\* C15 — in every state reachable by the canvas gestures (mouse down, move, up, Esc,
\* context menu), the toolbar commands and the keyboard shortcuts (undo, redo, delete,
\* select-all), every edge's source and target are ids of nodes currently in the graph.
C15_NoDanglingEdges ==
    \A e \in 1..Len(edges) : ~IsDangling(nodes, edges[e])

\* The node list or the edge list of the graph store changes its members in this step
GraphSetChanges == NodeIds(nodes') # NodeIds(nodes) \/ edges' # edges

\* C13 (as stated) — after every operation that changes the graph's node or edge set
\* (add, delete, restore, load, clear, undo, redo), solver.matrixInfo equals {n, k}
\* computed from the current graph.
C13_RecomputedOnEveryChange ==
    [][GraphSetChanges => matrixInfo' = computeMatrixInfo(nodes', edges')]_vars

\* C13 (amended) — solver.matrixInfo is recomputed by restartPuzzle only: a step that
\* enters SOLVER mode leaves it equal to {n, k} of the current graph, any step that
\* changes it is such a recomputation in SOLVER mode, and a step that changes the node
\* or edge set while the mode stays EDIT leaves it as it was.
C13_RecomputedOnRestartOnly ==
    [][/\ currentMode = EDIT /\ currentMode' = SOLVER
            => matrixInfo' = computeMatrixInfo(nodes', edges')
       /\ matrixInfo' # matrixInfo
            => currentMode' = SOLVER /\ matrixInfo' = computeMatrixInfo(nodes', edges')
       /\ GraphSetChanges /\ currentMode' = EDIT
            => matrixInfo' = matrixInfo]_vars

\* matrixInfo was computed for a graph with nodes on an entry to SOLVER mode, and the
\* graph has been edited since: back in EDIT mode, the stored {n, k} is not that of the
\* current graph
C13_Witness ==
    /\ currentMode = EDIT
    /\ matrixInfo.n > 0
    /\ Len(nodes) > 0
    /\ matrixInfo # computeMatrixInfo(nodes, edges)

----------------------------------------------------------------------------
(* Claims about the stored report while a puzzle is played *)

\* The least number of presses of any x with A * x = b for the current on values
\* (defined when some x exists)
LeastPresses ==
    CHOOSE w \in 0..Len(nodes) :
        /\ \E x \in GraphSolutions : Hamming(x) = w
        /\ \A x \in GraphSolutions : w <= Hamming(x)

C22_UnsolvableStaysUnsolvable ==
    (currentMode = SOLVER /\ Len(nodes) > 0 /\ solution.hasSolution = "false") =>
        /\ GraphSolutions = {}
        /\ solution = locals.result
        /\ locals.exit = "failed"

\* C22 happens: the report says unsolvable and clicks have moved the lights away
\* from the values the report was computed for.
C22_Witness ==
    /\ currentMode = SOLVER
    /\ Len(nodes) > 0
    /\ solution.hasSolution = "false"
    /\ nodes # resetNodesOnToInitialOn(nodes)
    /\ computeSolution(nodes, edges, algorithm).hasSolution = "false"

----------------------------------------------------------------------------
(* Claims about the minimum-weight search *)

\* The bitmasks the search weighs: i = 0 (the particular solution, weighed before the
\* loop) and the values i takes in for (i = 1; i < 1 << k; i++)
ExaminedMasks(k) == {0} \cup (IF 1 < Shl1(k) THEN 1..(Shl1(k) - 1) ELSE {})

\* The basis vectors (by position 1..k) the loop body XORs in for the bitmask i
MaskSet(i, k) == {j \in 1..k : BitAt(i, j - 1) = 1}

\* Subsets of the k basis vectors: all of them for a small k, and the subsets of at
\* most two vectors for a large k
MaskSubsets(k) ==
    IF k <= 2 + MaxFewPairs
    THEN SUBSET (1..k)
    ELSE {{}} \cup {{a, b} : a, b \in 1..k}

\* C23: the search has no cap: for every nullity k >= 1, also for k >= 31 where
\* 1 << k and (i >> j) & 1 are 32-bit operations, every subset of the k basis
\* vectors is selected by one of the bitmasks the search examines before it returns.
C23_SearchExaminesEveryMask ==
    locals.exit = "min_weight" =>
        LET k == Len(locals.freeCols)
        IN  \A S \in MaskSubsets(k) : \E i \in ExaminedMasks(k) : MaskSet(i, k) = S

\* The report of the search is no heavier than the particular solution XOR any one
\* basis vector
NoSingleVectorImproves ==
    locals.exit = "min_weight" =>
        \A j \in 1..Len(locals.nullSpaceBasis) :
            Len(solution.nodesToPress)
                <= Weight(XorVec(locals.xp, locals.nullSpaceBasis[j]))

\* The candidate of the bitmask i: the particular solution XOR the basis vectors i selects
MaskCandidate(i) ==
    SubsetXor(locals.xp, locals.nullSpaceBasis, MaskSet(i, Len(locals.freeCols)))

\* The first bitmask, in the order 0, 1, ..., 2^k - 1, whose candidate has the least
\* weight of all 2^k candidates
FirstLightestMask ==
    LET masks == 0..(2 ^ Len(locals.freeCols) - 1)
    IN  CHOOSE i \in masks :
            /\ \A h \in masks : Hamming(MaskCandidate(i)) <= Hamming(MaskCandidate(h))
            /\ \A h \in 0..(i - 1) : Hamming(MaskCandidate(i)) < Hamming(MaskCandidate(h))

----------------------------------------------------------------------------
(* Claims about editing, the modes and the history *)

\* C26: from the entry to SOLVER mode until it is left no event changes the node
\* set, the edge set or an initialOn (undo, redo, delete and the edit gestures are
\* refused), so throughout SOLVER mode matrixInfo is {n, k} of the current graph.
C26_SolverModeKeepsGraph ==
    currentMode = SOLVER => matrixInfo = computeMatrixInfo(nodes, edges)

\* A step that releases a drag begun on a ghost position (finalize always leaves the
\* redo stack empty and a command on the undo stack; ESC_DOWN leaves both stacks)
ReleasesNewNodeDrag ==
    /\ machine = "DraggingFromNode"
    /\ context.type = "FROM_NODE"
    /\ context.isFromNodeNewlyCreated
    /\ machine' = "Idle"
    /\ <<nodes, edges, undoStack, redoStack, nextId>>' # <<nodes, edges, undoStack, redoStack, nextId>>

\* C27: when a gesture that began with a mouse-down on a ghost position ends by the
\* release of the drag, the undo entry popUndoWithoutRedo removes is the provisional
\* AddElementsCommand of that mouse-down, and the command registered in its place
\* lists exactly the elements the gesture added to the graph (the pressed node and
\* what the release created), whatever shortcuts (undo, redo, delete) came between
\* the gesture's mouse events.
C27_PoppedIsProvisional ==
    [][ReleasesNewNodeDrag =>
          /\ Len(undoStack) > 0
          /\ undoStack[Len(undoStack)]
                 = AddElementsCommand(Elements(<<context.fromNode>>, <<>>))
          /\ Len(undoStack') > 0
          /\ LET cmd == undoStack'[Len(undoStack')]
                 before == ElementIds(Elements(nodes, edges))
                 after == ElementIds(Elements(nodes', edges'))
             IN  /\ cmd.type = "AddElements"
                 /\ ElementIds(cmd.elements) = {context.fromNode.id} \cup (after \ before)
                 /\ ElementIds(cmd.elements) \subseteq after]_vars

\* A step that releases a drag begun on an existing node and adds nothing to the
\* graph: released on empty space, on the same node or on a node already joined to it
ReleasesDragAddingNothing ==
    /\ machine = "DraggingFromNode"
    /\ context.type = "FROM_NODE"
    /\ ~context.isFromNodeNewlyCreated
    /\ machine' = "Idle"
    /\ nodes' = nodes
    /\ edges' = edges

\* C28: a drag that adds nothing leaves the undo stack and the redo stack as they
\* were; a command is registered only when a node or an edge was created.
C28_NothingAddedNothingRegistered ==
    [][ReleasesDragAddingNothing => undoStack' = undoStack /\ redoStack' = redoStack]_vars

\* The node set with every node's initialOn, and the edge set, of a graph
GraphSets(g) ==
    [nodes |-> {[id |-> g.nodes[i].id, cell |-> g.nodes[i].cell,
                 initialOn |-> g.nodes[i].initialOn] : i \in 1..Len(g.nodes)},
     edges |-> {g.edges[e] : e \in 1..Len(g.edges)}]

RECURSIVE UndoTimes(_, _)
\* history.undo() m times
UndoTimes(h, m) == IF m = 0 THEN h ELSE UndoTimes(undo(h), m - 1)

RECURSIVE RedoTimes(_, _)
\* history.redo() m times
RedoTimes(h, m) == IF m = 0 THEN h ELSE RedoTimes(redo(h), m - 1)

\* C29: undo and redo are inverse on the graph: after any sequence of registered
\* edit commands (elements added, the selection deleted with the edges at its nodes,
\* initial values inverted or turned off, some of them undone), undoing m commands
\* and redoing m, for every m up to the height of the undo stack, and redoing m and
\* undoing m, for every m up to the height of the redo stack, leaves the node set,
\* the edge set and every node's initialOn as they were; m = 1 is undo then redo and
\* redo then undo.
C29_UndoRedoInverse ==
    (machine = "Idle" /\ currentMode = EDIT) =>
        /\ \A m \in 1..Len(undoStack) :
              LET back == RedoTimes(UndoTimes(HistoryState, m), m)
              IN  /\ GraphSets(back.graph) = GraphSets(Graph)
                  /\ back.undoStack = undoStack
                  /\ back.redoStack = redoStack
        /\ \A m \in 1..Len(redoStack) :
              LET back == UndoTimes(RedoTimes(HistoryState, m), m)
              IN  /\ GraphSets(back.graph) = GraphSets(Graph)
                  /\ back.undoStack = undoStack
                  /\ back.redoStack = redoStack

\* The undo stack after a register of command on stack, told from the stack before:
\* the last MAX_HISTORY_SIZE entries of the stack with the command on top
IsRegistered(after, stack, command) ==
    LET appended == Append(stack, command)
        dropped == Len(appended) - Len(after)
    IN  /\ Len(after) = IF Len(appended) > MAX_HISTORY_SIZE
                        THEN MAX_HISTORY_SIZE ELSE Len(appended)
        /\ after[Len(after)] = command
        /\ \A i \in 1..Len(after) : after[i] = appended[dropped + i]

\* C30: in every state of the history store, after any sequence of register, undo,
\* redo, popUndoWithoutRedo and clear, the undo stack holds at most 200 commands and
\* the two stacks together hold at most 200; and a register leaves the undo stack as
\* its last 200 entries with the new command on top, and the redo stack empty.
C30_HistoryBounded ==
    /\ [](/\ Len(undoStack) <= 200
          /\ Len(undoStack) + Len(redoStack) <= 200)
    /\ [][historyRegister(NextCommand) =>
             /\ IsRegistered(undoStack', undoStack, NextCommand)
             /\ redoStack' = <<>>]_vars

\* Reached: 200 commands on the two stacks together, some of them undone, and the
\* oldest entry of the undo stack no longer the command the history began with
C30_Witness ==
    /\ Len(undoStack) + Len(redoStack) = 200
    /\ Len(redoStack) > 0
    /\ Len(undoStack) > 0
    /\ undoStack[1] = Command

----------------------------------------------------------------------------
(* Claims about the edges of the graph store and the serializer *)

\* No edge of es joins a node to itself, and no two edges of es join the same
\* unordered pair
SimpleEdges(es) ==
    /\ \A e \in 1..Len(es) : es[e].source # es[e].target
    /\ \A e, d \in 1..Len(es) :
          (e # d) => {es[e].source, es[e].target} # {es[d].source, es[d].target}

\* C31: in every state of the graph store no edge has source = target and no two
\* edges join the same unordered pair of nodes, and graph.addEdge asked for a
\* self-loop or for a pair already joined in either direction changes nothing.
C31_EdgesAreSimple ==
    /\ SimpleEdges(edges)
    /\ \A s, t \in {nodes[i].id : i \in 1..Len(nodes)} :
          (s = t \/ getEdgeBySourceAndTargetIds(edges, s, t) # 0)
              => addEdge(nodes, edges, nextId + 1, s, t) = edges

\* The file passes the tests deserialize makes before it reads the entries: an array
\* of a grid type 0 or 1, a node count, and at least that many entries
HeaderIsValid(content) ==
    /\ content.kind = "json"
    /\ content.isArray
    /\ Len(content.data) >= 2
    /\ ~content.data[1].isArray
    /\ content.data[1].items[1] \in {GRID_SQUARE, GRID_TRIANGULAR}
    /\ ~content.data[2].isArray
    /\ content.data[2].items[1] >= 0
    /\ content.data[2].items[1] <= Len(content.data) - 2

\* The node entries and the edge entries of a file with a valid header
NodeEntries(content) == SubSeq(content.data, 3, 2 + content.data[2].items[1])
EdgeEntries(content) == SubSeq(content.data, 3 + content.data[2].items[1], Len(content.data))

WellFormed(entries, length) ==
    \A i \in 1..Len(entries) : entries[i].isArray /\ Len(entries[i].items) = length

\* C33: deserialize returns Err("Invalid node data format.") when some node entry is
\* not an array of exactly 4 elements, Err("Invalid edge data format.") when some edge
\* entry is not an array of exactly 2 elements, and Ok only when every entry is well
\* formed, the result then having exactly nodeCount nodes.
C33_MalformedEntriesRejected ==
    \A content \in Contents :
        HeaderIsValid(content) =>
            LET result == deserializeContent(content, nextId)
                nodesFine == WellFormed(NodeEntries(content), 4)
                edgesFine == WellFormed(EdgeEntries(content), 2)
            IN  /\ ~nodesFine => result = Err("Invalid node data format.")
                /\ (nodesFine /\ ~edgesFine) => result = Err("Invalid edge data format.")
                /\ result.isOk =>
                      /\ nodesFine
                      /\ edgesFine
                      /\ Len(result.value.nodes) = content.data[2].items[1]

\* The grid of the graph store and the offset of the canvas the import is made under
StoreViews ==
    {[grid |-> GRID_SQUARE, offset |-> "origin"],
     [grid |-> GRID_TRIANGULAR, offset |-> "panned"]}

\* C34: whenever importGraph returns Err, the graph store with its grid, the undo
\* stack, the redo stack, the selection and the offset of the canvas are as before
\* the call; when it returns Ok, the graph store holds the deserialized graph and the
\* two stacks are empty.
C34_FailedImportChangesNothing ==
    \A content \in Contents : \A view \in StoreViews :
        LET before == Stores(view.grid, view.offset)
            after == importGraphStores(before, content, nextId)
        IN  IF after.result.isOk
            THEN /\ after.stores.graph = deserializeContent(content, nextId).value
                 /\ after.stores.undoStack = <<>>
                 /\ after.stores.redoStack = <<>>
            ELSE after.stores = before

\* Reached: a graph with a node and an edge, a command on the undo stack and a
\* selection, where some strings are refused and others are imported
C34_Witness ==
    /\ Len(nodes) > 0
    /\ Len(edges) > 0
    /\ Len(undoStack) > 0
    /\ selectedElementIds # {}
    /\ \E content \in Contents :
          ~importGraphStores(Stores(GRID_SQUARE, "panned"), content, nextId).result.isOk
    /\ \E content \in Contents :
          LET after == importGraphStores(Stores(GRID_SQUARE, "panned"), content, nextId)
          IN  after.result.isOk /\ after.stores.graph.nodes # nodes

\* The graph of the store under the grid type grid, with the nodes of lit switched on
\* and the others off
StoredGraph(grid, lit) ==
    [nodes |-> [i \in 1..Len(nodes) |-> [nodes[i] EXCEPT !.on = (i \in lit)]],
     edges |-> edges, grid |-> grid]

\* Every edge of g joins two nodes of g
EdgesReferenceNodes(g) ==
    \A e \in 1..Len(g.edges) :
        NodeIndex(g.nodes, g.edges[e].source) >= 0 /\ NodeIndex(g.nodes, g.edges[e].target) >= 0

\* h is g as the claim has it come back: grid type, number of nodes, every node's
\* type and initialOn, on = initialOn, one offset for all positions, and the edges
\* on the same index pairs in the same order
SamePuzzle(g, h) ==
    /\ h.grid = g.grid
    /\ Len(h.nodes) = Len(g.nodes)
    /\ \A i \in 1..Len(g.nodes) :
          /\ h.nodes[i].type = g.nodes[i].type
          /\ h.nodes[i].initialOn = g.nodes[i].initialOn
          /\ h.nodes[i].on = g.nodes[i].initialOn
          /\ g.nodes[i].gridX - h.nodes[i].gridX = g.nodes[1].gridX - h.nodes[1].gridX
          /\ g.nodes[i].gridY - h.nodes[i].gridY = g.nodes[1].gridY - h.nodes[1].gridY
    /\ Len(h.edges) = Len(g.edges)
    /\ \A e \in 1..Len(g.edges) :
          /\ NodeIndex(h.nodes, h.edges[e].source) = NodeIndex(g.nodes, g.edges[e].source)
          /\ NodeIndex(h.nodes, h.edges[e].target) = NodeIndex(g.nodes, g.edges[e].target)

\* C35: for every graph whose edges reference existing nodes, under either grid type
\* and with any nodes switched on, deserialize(serialize(g)) is Ok with the same
\* grid type and number of nodes, node i keeping its type and initialOn, its position
\* shifted by an offset common to all nodes, on reset to initialOn, the edges on the
\* same index pairs in the same order; and serializing the result yields the same
\* text.
C35_ExportImportPreserves ==
    \A grid \in {GRID_SQUARE, GRID_TRIANGULAR} : \A lit \in SUBSET (1..Len(nodes)) :
        LET g == StoredGraph(grid, lit)
            text == serialize(g)
            back == deserializeContent(text, nextId)
        IN  EdgesReferenceNodes(g) =>
                /\ back.isOk
                /\ SamePuzzle(g, back.value)
                /\ serialize(back.value) = text

\* Reached: two nodes, one of them initially on, and an edge, whose export moves
\* the positions
C35_Witness ==
    /\ Len(nodes) >= 2
    /\ Len(edges) >= 1
    /\ \E i \in 1..Len(nodes) : nodes[i].initialOn
    /\ EdgesReferenceNodes(StoredGraph(GRID_TRIANGULAR, {1}))
    /\ serialize(StoredGraph(GRID_SQUARE, {1})).data[3].items
           # <<nodes[1].gridX, nodes[1].gridY, nodes[1].type,
               IF nodes[1].initialOn THEN 1 ELSE 0>>

----------------------------------------------------------------------------
(* Claims about the gesture machine and the modes *)

\* A LEFT_MOUSE_DOWN taken by the machine
LeftMouseDownStep ==
    \/ \E cell \in Cells, isMulti \in BOOLEAN : LeftMouseDownOnGhostNode(cell, isMulti)
    \/ \E cell \in Cells, isMulti \in BOOLEAN : LeftMouseDownOnNode(cell, isMulti)
    \/ \E e \in 1..Len(edges), isMulti \in BOOLEAN : LeftMouseDownOnEdge(e, isMulti)
    \/ \E isMulti \in BOOLEAN : LeftMouseDownOnEmptyArea(isMulti)
    \/ LeftMouseDownOnPreparePanning
    \/ \E i \in 1..Len(nodes) : LeftMouseDownInSolverMode(nodes[i].id)
    \/ LeftMouseDownOffNodeInSolverMode

\* The nodes without their on values
NodesLessOn(ns) == [i \in 1..Len(ns) |-> [id |-> ns[i].id, cell |-> ns[i].cell,
                                          initialOn |-> ns[i].initialOn]]

\* A LEFT_MOUSE_DOWN in Idle and SOLVER mode leaves the machine idle, the nodes but
\* for their on values, the edges, the selection and the history as they were, and on
\* a node toggles that node and its neighbours once
SolverModeMouseDownOnlyToggles ==
    (machine = "Idle" /\ currentMode = SOLVER /\ LeftMouseDownStep) =>
        /\ machine' = "Idle"
        /\ NodesLessOn(nodes') = NodesLessOn(nodes)
        /\ edges' = edges
        /\ selectedElementIds' = selectedElementIds
        /\ undoStack' = undoStack
        /\ redoStack' = redoStack
        /\ \/ nodes' = nodes
           \/ \E i \in 1..Len(nodes) :
                 nodes' = toggleNodeAndNeighborsOnById(nodes, edges, nodes[i].id)

\* CONTEXT_MENU and ESC_DOWN change nothing in SOLVER mode
SolverModeIgnoresMenuAndEsc ==
    (currentMode = SOLVER /\ (EscDown \/ \E cell \in Cells : ContextMenuOnNode(cell)))
        => UNCHANGED vars

\* DraggingFromNode is entered from PressedOnNode with a FROM_NODE context only
DraggingOnlyFromPressedOnNode ==
    (machine' = "DraggingFromNode" /\ machine # "DraggingFromNode") =>
        (machine = "PressedOnNode" /\ context.type = "FROM_NODE")

\* C36: the gesture machine is gated by the mode: in Idle and SOLVER mode a
\* LEFT_MOUSE_DOWN never enters PressedOnNode, DraggingFromNode or BoxSelecting,
\* creates no node and no edge, changes neither the selection nor the history, and on
\* a node toggles that node and its neighbours once, the machine staying in Idle;
\* CONTEXT_MENU and ESC_DOWN have no effect in SOLVER mode; DraggingFromNode is
\* reached only from PressedOnNode with a FROM_NODE context.
C36_MachineGatedByMode ==
    [][/\ SolverModeMouseDownOnlyToggles
       /\ SolverModeIgnoresMenuAndEsc
       /\ DraggingOnlyFromPressedOnNode]_vars

----------------------------------------------------------------------------
(* The timer-based solver of model/dataSerializer.js and its handlers *)

MsgSolving == "Solving..."
MsgAnArbitrary == "Success: An arbitrary solution found."

\* Largest number of solve timers pending at once
MaxTimers == 2

\* Solver.#getSolution() with its locals: the elimination of computeSolution, with this
\* file's message for an arbitrary solution
getSolutionRun(ns, es, alg) ==
    LET run == computeSolutionRun(ns, es, alg)
    IN  IF run.exit = "any" /\ ~IsUnique(run.freeCols)
        THEN [run EXCEPT !.result.message = MsgAnArbitrary]
        ELSE run

\* Solver.setSolution(): the interim report is published and a 20 ms timer is started
setSolutionByTimer ==
    /\ timers < MaxTimers
    /\ solution' = Report("null", <<>>, MsgSolving)
    /\ timers' = timers + 1
    /\ locals' = locals

\* The timer's callback that solves once and writes that first result again ever after
setTimeoutCallback_writesEarlierResult ==
    /\ timers > 0
    /\ timers' = timers - 1
    /\ locals' = IF locals.exit = "none" THEN getSolutionRun(nodes, edges, algorithm)
                 ELSE locals
    /\ solution' = locals'.result
    /\ UNCHANGED <<nodes, edges, algorithm, matrixInfo>>
    /\ UNCHANGED editVars

\* The timer's callback: solverState.solution = this.#getSolution(), which reads the
\* graph and the algorithm as they are when the timer fires
setTimeoutCallback ==
    /\ timers > 0
    /\ timers' = timers - 1
    /\ locals' = getSolutionRun(nodes, edges, algorithm)
    /\ solution' = locals'.result
    /\ UNCHANGED <<nodes, edges, algorithm, matrixInfo>>
    /\ UNCHANGED editVars

\* commands.solveCurrentPuzzle(algorithm), from the toolbar's Algorithm buttons
solveCurrentPuzzle(a) ==
    /\ currentMode = SOLVER
    /\ algorithm' = a
    /\ setSolutionByTimer
    /\ UNCHANGED <<nodes, edges, matrixInfo>>
    /\ UNCHANGED editVars

\* commands.restartPuzzle(): resetToInitialState(); setMatrixInfo(); setSolution()
restartPuzzleByTimer ==
    /\ nodes' = resetNodesOnToInitialOn(nodes)
    /\ matrixInfo' = computeMatrixInfo(nodes', edges)
    /\ setSolutionByTimer
    /\ UNCHANGED <<edges, algorithm>>

\* Toolbar Restart
RestartByTimer ==
    /\ currentMode = SOLVER
    /\ restartPuzzleByTimer
    /\ UNCHANGED editVars

\* commands.switchToSolverMode(), from the toolbar's Mode > Solver
switchToSolverModeByTimer ==
    /\ isNotDragging
    /\ currentMode # SOLVER
    /\ currentMode' = SOLVER
    /\ selectedElementIds' = {}
    /\ restartPuzzleByTimer
    /\ UNCHANGED <<undoStack, redoStack, machine, context, nextId>>

\* solverModeHandler.handleMouseDown(e), the left button on the node clickedNodeId
handleMouseDown(clickedNodeId) ==
    /\ currentMode = SOLVER
    /\ clickedNodeId \in {nodes[i].id : i \in 1..Len(nodes)}
    /\ nodes' = toggleNodeAndNeighborsOnById(nodes, edges, clickedNodeId)
    /\ IF solution.hasSolution = "true"
       THEN IF wasInSolution(clickedNodeId)
            THEN /\ solution' = removeNodeFromSolution(solution, clickedNodeId)
                 /\ UNCHANGED <<locals, timers>>
            ELSE setSolutionByTimer
       ELSE UNCHANGED <<solution, locals, timers>>
    /\ UNCHANGED <<edges, algorithm, matrixInfo>>
    /\ UNCHANGED editVars

NextTimer ==
    \/ switchToSolverModeByTimer
    \/ switchToEditMode
    \/ RestartByTimer
    \/ \E a \in AlgorithmType : solveCurrentPuzzle(a)
    \/ \E i \in 1..Len(nodes) : handleMouseDown(nodes[i].id)
    \/ setTimeoutCallback

SpecTimer == InitSolver /\ [][NextTimer]_vars

----------------------------------------------------------------------------
(* Claims about the timer-based solver *)

\* No solve timer is pending, in SOLVER mode
TimersSettled == currentMode = SOLVER /\ timers = 0

\* The stored list solves the current position whenever the report says solved
StoredListSolves ==
    solution.hasSolution = "true" =>
        /\ PressListWellFormed
        /\ MatVec(GraphA, PressVector(nodes, solution.nodesToPress)) = GraphB

\* The stored message is the one a solve of the current graph under the current
\* algorithm gives
StoredMessageIsCurrent ==
    solution.message = getSolutionRun(nodes, edges, algorithm).result.message

\* C32 as stated: for every interleaving of solve requests, node clicks and timer
\* firings of the timer-based solver, once no solve timer is pending in SOLVER mode the
\* stored report is not the interim one, says hasSolution = true exactly when A * x = b
\* has a solution for the current on values, and its press list satisfies A * x = b.
C32_SettledReportIsCurrent ==
    TimersSettled =>
        /\ solution.hasSolution \in {"true", "false"}
        /\ solution.hasSolution = "true" <=> GraphSolutions # {}
        /\ StoredListSolves

\* C32, amended: the same for a graph of at least one node, with the message of the
\* current algorithm; for the graph without nodes the settled report is hasSolution =
\* false with "No nodes to solve.".
C32_SettledReportIsCurrentOrEmpty ==
    TimersSettled =>
        /\ solution.hasSolution \in {"true", "false"}
        /\ solution.hasSolution = "true" <=> (nodes # <<>> /\ GraphSolutions # {})
        /\ StoredListSolves
        /\ StoredMessageIsCurrent
        /\ nodes = <<>> => solution = EmptyResult

\* C32 happens: no timer is pending after clicks have moved the position away from the
\* initial one and the algorithm was changed to any, the last write being a timer's
\* result that names a node to press.
C32_Witness ==
    /\ TimersSettled
    /\ algorithm = ANY
    /\ nodes # resetNodesOnToInitialOn(nodes)
    /\ solution = locals.result
    /\ solution.hasSolution = "true"
    /\ solution.nodesToPress # <<>>

====
